---- MODULE Spec2Model ----
(***************************************************************************)
(* Batch scheduler of the WeChat scraper: AsyncBatchWeChatScraper (asyncio *)
(* tasks, account semaphore, one AsyncWeChatClient semaphore per pipeline) *)
(* and BatchWeChatScraper (sequential loop or ThreadPoolExecutor).         *)
(* One pipeline = one account name of config['accounts'].                  *)
(***************************************************************************)
EXTENDS Integers, Sequences, FiniteSets, TLC

\* ---- bounds of the model ------------------------------------------------
NumAccounts == 2
MaxConcurrentAccounts == 2
MaxConcurrentRequests == 2
MaxPages == 2
MaxListLen == 3
MaxBodyLen == 2

\* ---- program constants --------------------------------------------------
max_retries == 3
\* update_time of the posts a list page carries: inside and outside the date window
UpdateTimes == [in |-> 1701000000, out |-> 1700000000]
\* config['start_date'] and config['end_date'], as day numbers
Window == [start |-> 19680, end |-> 19690]

Accounts == 1..NumAccounts
Pages == 0..(MaxPages - 1)
\* config['accounts'] of the batches checked: distinct display names
AccountLists == {[p \in Accounts |-> p]}

VARIABLES
    impl,                    \* "async" | "sequential" | "threaded"
    include_content,         \* config['include_content']
    content_keyword_filter,  \* config['content_keyword_filter'], a tuple of characters
    max_concurrent_accounts, \* config['max_concurrent_accounts'] / config['max_workers']
    max_concurrent_requests, \* config['max_concurrent_requests']
    accounts,                \* config['accounts']: account index -> display name
    dates,                   \* config['start_date'], config['end_date']: "ok" | "malformed" | "reversed"
    phase,                   \* "idle" | "running" | "returned" | "raised" (start_batch_scrape)
    is_cancelled,            \* the cancel flag
    pc,                      \* position of each pipeline
    status,                  \* last account_status event of each pipeline
    errmsg,                  \* message of the pipeline's error status
    lookup,                  \* result of the pipeline's search request
    seen,                    \* responses the pipeline has received: "auth", "error", "bodyfail"
    pg,                      \* list-page requests of each pipeline
    bd,                      \* body requests of each pipeline
    articles,                \* the pipeline's article list (all_articles / articles_in_range)
    collected_articles,      \* AsyncBatchWeChatScraper.collected_articles
    total_articles_count,    \* self.total_articles_count
    all_articles,            \* the list start_batch_scrape returns
    collected,               \* threaded: futures already handled by as_completed loop
    loop_exited,             \* sequential/threaded: the scheduler loop has ended
    batch_completed,         \* total of the batch_completed event, -1 if none emitted
    lastEvent,               \* kind of the most recent callback event
    article_count,           \* total of the pipeline's last article_progress event after a
                             \* filter step, -1 if it emitted none
    op,                      \* "batch", or the function a call outside a batch applies
    arg,                     \* argument of that call
    res                      \* [done, val]: whether the call has returned, and its value

callvars == <<op, arg, res>>
\* what no step of a batch writes: the configuration and the call outside the batch
cfgvars == <<impl, include_content, content_keyword_filter, max_concurrent_accounts,
             max_concurrent_requests, accounts, dates, callvars>>
schedvars == <<phase, all_articles, collected, loop_exited, batch_completed>>
aggvars == <<collected_articles, total_articles_count>>
reqvars == <<lookup, seen, pg, bd>>
vars == <<impl, include_content, content_keyword_filter, max_concurrent_accounts,
          max_concurrent_requests, accounts, dates, phase, is_cancelled, pc, status, errmsg,
          lookup, seen, pg, bd, articles, collected_articles, total_articles_count,
          all_articles, collected, loop_exited, batch_completed, lastEvent, article_count,
          op, arg, res>>

\* ---- pure helpers -------------------------------------------------------
RECURSIVE Concat(_, _)
Concat(f, n) == IF n = 0 THEN <<>> ELSE Concat(f, n - 1) \o f[n]

\* datetime.fromtimestamp(ts).date(), as a day number
DateOf(ts) == ts \div 86400

\* a record of the result set
Article(p, i, k, ts) ==
    [owner |-> p, name |-> accounts[p], page |-> i, idx |-> k, ts |-> ts, content |-> <<>>]

\* dict equality of two article dicts (owner is bookkeeping of the model)
SameDict(a, b) ==
    /\ a.name = b.name /\ a.page = b.page /\ a.idx = b.idx
    /\ a.ts = b.ts /\ a.content = b.content

InList(a, s) == \E k \in 1..Len(s) : SameDict(a, s[k])

\* posts of one app_msg_list response
PostsOf(out) ==
    CASE out = "in" -> <<UpdateTimes.in>>
      [] out = "out" -> <<UpdateTimes.out>>
      [] OTHER -> <<>>

\* a date filter whose upper edge is exclusive
filter_articles_by_date_exclusive(arts) ==
    SelectSeq(arts, LAMBDA a : a.ts # 0 /\ Window.start <= DateOf(a.ts)
                                         /\ DateOf(a.ts) < Window.end)

\* WeChatScraper.filter_articles_by_date with both dates given: `if timestamp:`, then
\* `continue` when the date is before start_date or after end_date
WeChatScraper_filter_articles_by_date(arts) ==
    SelectSeq(arts, LAMBDA a : a.ts # 0 /\ ~(DateOf(a.ts) < Window.start)
                                         /\ ~(DateOf(a.ts) > Window.end))

\* AsyncBatchWeChatScraper._filter_articles_by_date
filter_articles_by_date(arts) ==
    SelectSeq(arts, LAMBDA a : a.ts # 0 /\ Window.start <= DateOf(a.ts)
                                         /\ DateOf(a.ts) <= Window.end)

\* str.lower() of one character of the alphabet of the model
LowerChar(c) ==
    CASE c = "K" -> "k"
      [] c = "W" -> "w"
      [] OTHER -> c

\* s.lower()
lower(s) == [i \in 1..Len(s) |-> LowerChar(s[i])]

\* `t in s` of two strings
Contains(s, t) ==
    \E i \in 0..(Len(s) - Len(t)) : SubSeq(s, i + 1, i + Len(t)) = t

\* a keyword filter that compares the characters as they are
filter_articles_by_keyword_exact(arts, keyword) ==
    IF keyword = <<>> THEN arts
    ELSE SelectSeq(arts, LAMBDA a : a.content # <<>> /\ Contains(a.content, keyword))

\* _filter_articles_by_keyword: `if not keyword: return articles`, else the articles
\* with `content and keyword_lower in content.lower()`
filter_articles_by_keyword(arts, keyword) ==
    IF keyword = <<>> THEN arts
    ELSE SelectSeq(arts, LAMBDA a : a.content # <<>>
                                    /\ Contains(lower(a.content), lower(keyword)))

NoPage == [st |-> "none", out |-> "none"]
NoBody == [st |-> "none", att |-> 0]

Terminal == {"returned", "raised", "skipped"}
Running == {"searching", "fetching", "content"}

\* config['content_keyword_filter'] of the batches checked: none, or a keyword
KeywordConfigs == {<<>>, <<"K", "w">>}

\* the configurations checked; the sequential loop reads neither concurrency setting and
\* the thread pool reads only max_workers; the async batches have at least as many
\* request slots per account as concurrent accounts (as the GUI configures them)
Configs ==
    {c \in [impl : {"async", "sequential", "threaded"},
            content : BOOLEAN, keyword : KeywordConfigs,
            acc : 1..MaxConcurrentAccounts, req : 1..MaxConcurrentRequests] :
        /\ c.impl = "sequential" => c.acc = 1
        /\ c.impl # "async" => c.req = 1
        /\ c.impl = "async" => c.acc <= c.req}

\* start_date and end_date of the configuration: both parse and start <= end, one does
\* not parse, or start > end
DateConfigs == {"ok", "malformed", "reversed"}

NoResult == [done |-> FALSE, val |-> <<>>]

\* is_cancelled = False, no pipeline task, counters and result lists empty
SchedulerIdle ==
    /\ is_cancelled = FALSE
    /\ pc = [p \in Accounts |-> "pending"]
    /\ status = [p \in Accounts |-> "none"]
    /\ errmsg = [p \in Accounts |-> <<>>]
    /\ lookup = [p \in Accounts |-> "none"]
    /\ seen = [p \in Accounts |-> {}]
    /\ pg = [p \in Accounts |-> [i \in Pages |-> NoPage]]
    /\ bd = [p \in Accounts |-> <<>>]
    /\ articles = [p \in Accounts |-> <<>>]
    /\ collected_articles = <<>>
    /\ total_articles_count = 0
    /\ all_articles = <<>>
    /\ collected = {}
    /\ loop_exited = FALSE
    /\ batch_completed = -1
    /\ lastEvent = "none"
    /\ article_count = [p \in Accounts |-> -1]

\* the scraper objects after construction, before start_batch_scrape(config)
InitBatch ==
    /\ \E c \in Configs :
          /\ impl = c.impl
          /\ include_content = c.content
          /\ content_keyword_filter = c.keyword
          /\ max_concurrent_accounts = c.acc
          /\ max_concurrent_requests = c.req
    /\ accounts \in AccountLists
    /\ dates \in DateConfigs
    /\ phase = "idle"
    /\ SchedulerIdle
    /\ op = "batch" /\ arg = <<>> /\ res = NoResult

\* no batch is running: function f of the program is called on its own with argument a
InitCallWith(f, a, content, keyword) ==
    /\ impl = "async" /\ include_content = content /\ content_keyword_filter = keyword
    /\ max_concurrent_accounts = 1 /\ max_concurrent_requests = 1
    /\ accounts \in AccountLists
    /\ dates = "ok"
    /\ phase = "off"
    /\ SchedulerIdle
    /\ op = f /\ arg = a /\ res = NoResult

InitCall(f, a) == InitCallWith(f, a, FALSE, <<>>)

\* the call goes on with r as its result so far
Store(r) ==
    /\ ~res.done
    /\ res' = r
    /\ UNCHANGED <<impl, include_content, content_keyword_filter, max_concurrent_accounts,
                   max_concurrent_requests, accounts, dates, phase, is_cancelled, pc,
                   status, errmsg, lookup, seen, pg, bd, articles, collected_articles,
                   total_articles_count, all_articles, collected, loop_exited,
                   batch_completed, lastEvent, article_count, op, arg>>

\* the call returns value v
Return(v) == Store([done |-> TRUE, val |-> v])

\* ---- start of start_batch_scrape -----------------------------------------
\* the try/except around the two strptime calls, then `if start_date > end_date`
ConfigError == dates # "ok"

\* start_batch_scrape up to the scheduler: defaults, state reset, date validation.
\* On a validation error the async scraper calls the error callback and returns [];
\* BatchWeChatScraper._trigger_error raises KeyError (self.callbacks['error'])
StartBatch ==
    /\ phase = "idle"
    /\ IF ~ConfigError
       THEN /\ phase' = "running"
            /\ UNCHANGED lastEvent
       ELSE IF impl = "async"
            THEN /\ phase' = "returned"
                 /\ lastEvent' = "error"
            ELSE /\ phase' = "raised"
                 /\ UNCHANGED lastEvent
    /\ UNCHANGED <<cfgvars, article_count, aggvars, reqvars, all_articles, collected, loop_exited,
                   batch_completed, is_cancelled, pc, status, errmsg, articles>>

\* ---- events and failure paths -------------------------------------------
\* f"<processing failed>: <account not found>: {account_name}", as its parts
NotFoundMsg(p) == <<"chuli shibai: ", "weizhaodao gongzhonghao: ", accounts[p]>>
\* f"<processing failed>: {str(e)}" of a requests exception
TransportMsg == <<"chuli shibai: ", "requests exception">>

\* except Exception in scrape_single_account: error status + error callback, return []
PipelineFails(p, msg) ==
    /\ pc' = [pc EXCEPT ![p] = "raised"]
    /\ status' = [status EXCEPT ![p] = "error"]
    /\ errmsg' = [errmsg EXCEPT ![p] = msg]
    /\ lastEvent' = "error"
    /\ UNCHANGED phase

\* ---- the two semaphores --------------------------------------------------
\* a scheduler without the account semaphore
AccountSlotAlwaysFree == TRUE

\* account_semaphore = asyncio.Semaphore(max_concurrent_accounts)
AccountSlotFree ==
    Cardinality({q \in Accounts : pc[q] \in Running}) < max_concurrent_accounts

\* a count of the slots in use that keeps the slot of every request already answered
HoldersNeverReleased(p) ==
    (IF pc[p] = "searching" THEN 1 ELSE 0)
    + Cardinality({i \in Pages : pg[p][i].st \in {"req", "done"}})
    + Cardinality({j \in DOMAIN bd[p] : bd[p][j].st \in {"req", "done"}})

\* requests inside `async with self._semaphore` of pipeline p's client
\* (st = "req": the request is in flight or the sleep that follows it is running)
Holders(p) ==
    (IF pc[p] = "searching" THEN 1 ELSE 0)
    + Cardinality({i \in Pages : pg[p][i].st = "req"})
    + Cardinality({j \in DOMAIN bd[p] : bd[p][j].st = "req"})

\* a client without its request semaphore
RequestSlotAlwaysFree(p) == TRUE

\* self._semaphore = asyncio.Semaphore(max_concurrent)
RequestSlotFree(p) == Holders(p) < max_concurrent_requests

\* tasks and futures are started in the order of config['accounts']
NextPending(p) ==
    pc[p] = "pending" /\ \A q \in Accounts : q < p => pc[q] # "pending"

LookupOutcomes == {"found", "empty", "auth", "error"}

\* `if not search_results`: search_account gave [] (no 'list' in the response, an empty
\* list, or an exception that search_account swallowed)
SearchResultsEmpty(out) == out # "found"
PageOutcomes == {"in", "out", "empty", "auth", "error"}
BodyOutcomes == {"kw", "nokw", "short", "fail"}

\* what a response adds to the pipeline's history
Seen(p, out) ==
    IF out \in {"auth", "error"} THEN [seen EXCEPT ![p] = @ \cup {out}] ELSE seen

\* ---- AsyncBatchWeChatScraper ---------------------------------------------
\* async with account_semaphore: cancel check, "processing", "searching", search request
AsyncAdmit(p) ==
    /\ impl = "async" /\ phase = "running"
    /\ NextPending(p)
    /\ AccountSlotFree
    /\ IF is_cancelled
       THEN /\ pc' = [pc EXCEPT ![p] = "skipped"]
            /\ UNCHANGED <<status, lastEvent>>
       ELSE /\ pc' = [pc EXCEPT ![p] = "searching"]
            /\ status' = [status EXCEPT ![p] = "searching"]
            /\ lastEvent' = "account_status"
    /\ UNCHANGED <<cfgvars, article_count, schedvars, aggvars, reqvars, is_cancelled, errmsg, articles>>

\* AsyncWeChatClient.search_account returns (response, then self._delay(), or an
\* exception that returns []): an empty list raises, else "fetching" and the page tasks
AsyncLookupReply(p, out) ==
    /\ impl = "async" /\ pc[p] = "searching"
    /\ lookup' = [lookup EXCEPT ![p] = out]
    /\ seen' = Seen(p, out)
    /\ IF ~SearchResultsEmpty(out)
       THEN /\ pc' = [pc EXCEPT ![p] = "fetching"]
            /\ status' = [status EXCEPT ![p] = "fetching"]
            /\ lastEvent' = "account_status"
            /\ pg' = [pg EXCEPT ![p] = [i \in Pages |-> [st |-> "wait", out |-> "none"]]]
            /\ UNCHANGED <<errmsg, phase>>
       ELSE /\ PipelineFails(p, NotFoundMsg(p))
            /\ UNCHANGED pg
    /\ UNCHANGED <<cfgvars, article_count, aggvars, all_articles, collected, loop_exited, batch_completed,
                   is_cancelled, bd, articles>>

\* get_articles_page: async with self._semaphore, then the request is sent
AsyncPageAcquire(p, i) ==
    /\ impl = "async" /\ pc[p] = "fetching"
    /\ pg[p][i].st = "wait"
    /\ RequestSlotFree(p)
    /\ pg' = [pg EXCEPT ![p][i].st = "req"]
    /\ UNCHANGED <<cfgvars, article_count, schedvars, aggvars, is_cancelled, pc, status, errmsg, lookup,
                   seen, bd, articles, lastEvent>>

\* get_articles_page returns and releases the slot: the response and self._delay(),
\* or an exception that returns [] at once
AsyncPageReply(p, i, out) ==
    /\ impl = "async" /\ pc[p] = "fetching"
    /\ pg[p][i].st = "req"
    /\ pg' = [pg EXCEPT ![p][i] = [st |-> "done", out |-> out]]
    /\ seen' = Seen(p, out)
    /\ UNCHANGED <<cfgvars, article_count, schedvars, aggvars, is_cancelled, pc, status, errmsg, lookup,
                   bd, articles, lastEvent>>

\* records of page i of pipeline p
PageRecords(p, i, out) ==
    [k \in 1..Len(PostsOf(out)) |-> Article(p, i, k, PostsOf(out)[k])]

\* a merge that passes over an empty result and goes on with the next page
RECURSIVE MergePagesSkipping(_, _, _)
MergePagesSkipping(p, outs, i) ==
    IF i = MaxPages
    THEN <<>>
    ELSE PageRecords(p, i, outs[i].out) \o MergePagesSkipping(p, outs, i + 1)

\* get_articles_list: results in page order, cut at the first empty result
RECURSIVE MergePages(_, _, _)
MergePages(p, outs, i) ==
    IF i = MaxPages \/ PostsOf(outs[i].out) = <<>>
    THEN <<>>
    ELSE PageRecords(p, i, outs[i].out) \o MergePages(p, outs, i + 1)

\* async with lock: total_articles_count += n; collected_articles.extend(...)
CommitArticles(arts) ==
    /\ total_articles_count' = total_articles_count + Len(arts)
    /\ collected_articles' = collected_articles \o arts

\* the body tasks of get_articles_content_batch / the body loop, before the first request
BodyTasks(arts, first) == [j \in 1..Len(arts) |-> [st |-> first, att |-> 0]]

\* a pipeline that fetches bodies whatever include_content says
FetchesBodiesAlways(arts) == arts # <<>>

\* `if include_content and articles_in_range:`
FetchesBodies(arts) == include_content /\ arts # <<>>

\* gather of the page tasks is done (its results are dropped after the merge):
\* merge, date filter, commit, then the body phase or "completed"
AsyncListDone(p) ==
    /\ impl = "async" /\ pc[p] = "fetching"
    /\ \A i \in Pages : pg[p][i].st = "done"
    /\ LET inrange == filter_articles_by_date(MergePages(p, pg[p], 0)) IN
        /\ articles' = [articles EXCEPT ![p] = inrange]
        /\ CommitArticles(inrange)
        /\ IF FetchesBodies(inrange)
           THEN /\ pc' = [pc EXCEPT ![p] = "content"]
                /\ status' = [status EXCEPT ![p] = "content"]
                /\ bd' = [bd EXCEPT ![p] = BodyTasks(inrange, "wait")]
           ELSE /\ pc' = [pc EXCEPT ![p] = "returned"]
                /\ status' = [status EXCEPT ![p] = "completed"]
                /\ UNCHANGED bd
    /\ pg' = [pg EXCEPT ![p] = [i \in Pages |-> [st |-> "done", out |-> "none"]]]
    /\ article_count' = [article_count EXCEPT ![p] = total_articles_count']
    /\ lastEvent' = "account_status"
    /\ UNCHANGED <<cfgvars, schedvars, is_cancelled, errmsg, lookup, seen>>

\* the dict object of pipeline p at position j gets its content (lists alias the dict)
SetContent(s, a, c) ==
    [k \in 1..Len(s) |->
        IF s[k].owner = a.owner /\ s[k].page = a.page /\ s[k].idx = a.idx
        THEN [s[k] EXCEPT !.content = c] ELSE s[k]]

\* get_article_content: async with self._semaphore, then the request is sent
AsyncBodyAcquire(p, j) ==
    /\ impl = "async" /\ pc[p] = "content"
    /\ j \in DOMAIN bd[p] /\ bd[p][j].st = "wait"
    /\ RequestSlotFree(p)
    /\ bd' = [bd EXCEPT ![p][j].st = "req"]
    /\ UNCHANGED <<cfgvars, article_count, schedvars, aggvars, is_cancelled, pc, status, errmsg, lookup,
                   seen, pg, articles, lastEvent>>

\* content get_article_content returns for the outcome of its last attempt: a body
\* with the keyword in another case, one without it, a body below MIN_CONTENT_LENGTH,
\* the error text
ContentOf(out) ==
    CASE out = "kw" -> <<"x", "k", "W">>
      [] out = "nokw" -> <<"w", "k">>
      [] out = "short" -> <<"k">>
      [] out = "fail" -> <<"e", "r", "r">>

\* an attempt with this outcome is followed by another one
Retries(out, att) == out \in {"short", "fail"} /\ att < max_retries - 1

\* fetch_content: article['content'] = content; progress_callback(index + 1, total, ...)
BodyFetched(p, j, c) ==
    /\ articles' = [articles EXCEPT ![p] = SetContent(articles[p], articles[p][j], c)]
    /\ collected_articles' = SetContent(collected_articles, articles[p][j], c)
    /\ lastEvent' = "content_progress"

\* get_article_content: one attempt ends and its slot is released
\*   valid content             -> self._delay(), return content
\*   short or failed, not last -> asyncio.sleep(retry_delay), next attempt
\*   short, last attempt       -> self._delay(), return the short content
\*   failed, last attempt      -> return the error text
AsyncBodyReply(p, j, out) ==
    /\ impl = "async" /\ pc[p] = "content"
    /\ j \in DOMAIN bd[p] /\ bd[p][j].st = "req"
    /\ IF Retries(out, bd[p][j].att)
       THEN /\ bd' = [bd EXCEPT ![p][j] = [st |-> "wait", att |-> @.att + 1]]
            /\ UNCHANGED <<articles, collected_articles, lastEvent, seen>>
       ELSE /\ bd' = [bd EXCEPT ![p][j] = [st |-> "done", att |-> 0]]
            /\ BodyFetched(p, j, ContentOf(out))
            /\ seen' = IF out = "fail" THEN [seen EXCEPT ![p] = @ \cup {"bodyfail"}] ELSE seen
    /\ UNCHANGED <<cfgvars, article_count, schedvars, total_articles_count, is_cancelled, pc, status,
                   errmsg, lookup, pg>>

\* [a for a in collected_articles if a.get('name') != account_name or a in articles_in_range]
remove_filtered(agg, account_name, articles_in_range) ==
    SelectSeq(agg, LAMBDA a : a.name # account_name \/ InList(a, articles_in_range))

\* a filter step that drops every record of the account from the aggregate
UncommitAll(p, before, kept) ==
    /\ total_articles_count' = total_articles_count - (Len(before) - Len(kept))
    /\ collected_articles' = SelectSeq(collected_articles, LAMBDA a : a.name # accounts[p])

\* async with lock: total_articles_count -= filtered_out; collected_articles = [a for a
\* in collected_articles if a.get('name') != account_name or a in articles_in_range]
UncommitFiltered(p, before, kept) ==
    /\ total_articles_count' = total_articles_count - (Len(before) - Len(kept))
    /\ collected_articles' = remove_filtered(collected_articles, accounts[p], kept)

\* gather of the body tasks is done: keyword filter, "completed"
AsyncBodiesDone(p) ==
    /\ impl = "async" /\ pc[p] = "content"
    /\ \A j \in DOMAIN bd[p] : bd[p][j].st = "done"
    /\ IF content_keyword_filter # <<>>
       THEN LET kept == filter_articles_by_keyword(articles[p], content_keyword_filter) IN
            /\ articles' = [articles EXCEPT ![p] = kept]
            /\ UncommitFiltered(p, articles[p], kept)
            /\ article_count' = [article_count EXCEPT ![p] = total_articles_count']
       ELSE UNCHANGED <<articles, collected_articles, total_articles_count, article_count>>
    /\ pc' = [pc EXCEPT ![p] = "returned"]
    /\ status' = [status EXCEPT ![p] = "completed"]
    /\ lastEvent' = "account_status"
    /\ UNCHANGED <<cfgvars, schedvars, reqvars, is_cancelled, errmsg>>

\* ---- end of start_batch_scrape --------------------------------------------
\* a start_batch_scrape that reports completion whatever the flag says
EmitsBatchCompletedAlways == TRUE

\* if not self.is_cancelled: (save CSV) self._trigger_batch_completed(len(all_articles))
EmitsBatchCompleted == ~is_cancelled

\* an end of start_batch_scrape that reports the number of completed accounts
FinalizeAccounts(result) ==
    /\ all_articles' = result
    /\ phase' = "returned"
    /\ IF EmitsBatchCompleted
       THEN /\ batch_completed' = Cardinality({p \in Accounts : status[p] = "completed"})
            /\ lastEvent' = "batch_completed"
       ELSE UNCHANGED <<batch_completed, lastEvent>>

Finalize(result) ==
    /\ all_articles' = result
    /\ phase' = "returned"
    /\ IF EmitsBatchCompleted
       THEN batch_completed' = Len(result) /\ lastEvent' = "batch_completed"
       ELSE UNCHANGED <<batch_completed, lastEvent>>

\* value a pipeline task returns to asyncio.gather
TaskResult(p) == IF pc[p] = "returned" THEN articles[p] ELSE <<>>

\* a collection step that goes on as soon as one task has ended
AsyncGatherFirstCompleted ==
    /\ impl = "async" /\ phase = "running"
    /\ \E p \in Accounts : pc[p] \in Terminal
    /\ Finalize(Concat([p \in Accounts |-> TaskResult(p)], NumAccounts))
    /\ UNCHANGED <<cfgvars, article_count, aggvars, reqvars, is_cancelled, pc, status, errmsg, articles,
                   collected, loop_exited>>

\* results = await asyncio.gather(*tasks); all_articles.extend(result) in account order
AsyncGather ==
    /\ impl = "async" /\ phase = "running"
    /\ \A p \in Accounts : pc[p] \in Terminal
    /\ Finalize(Concat([p \in Accounts |-> TaskResult(p)], NumAccounts))
    /\ UNCHANGED <<cfgvars, article_count, aggvars, reqvars, is_cancelled, pc, status, errmsg, articles,
                   collected, loop_exited>>

\* AsyncBatchWeChatScraper.get_collected_articles(): a copy of the aggregate
get_collected_articles == collected_articles

\* AsyncBatchScrapeWorker.get_articles(): the list start_batch_scrape returned if it is
\* not empty, else the aggregate; the page's _on_cancel reads it when the user cancels
get_articles ==
    IF phase = "returned" /\ all_articles # <<>> THEN all_articles ELSE get_collected_articles

\* cancel_batch_scrape(), called from the GUI thread while the batch runs
Cancel ==
    /\ phase = "running" /\ ~is_cancelled
    /\ is_cancelled' = TRUE
    /\ UNCHANGED <<cfgvars, article_count, schedvars, aggvars, reqvars, pc, status, errmsg, articles,
                   lastEvent>>

\* ---- BatchWeChatScraper (sequential loop and thread pool) -----------------
\* max_workers = min(config.get('max_workers', 3), total_accounts)
max_workers == IF max_concurrent_accounts < NumAccounts
               THEN max_concurrent_accounts ELSE NumAccounts

\* ThreadPoolExecutor(max_workers): an idle worker thread exists
WorkerFree == Cardinality({q \in Accounts : pc[q] \in Running}) < max_workers

\* sequential loop head: `if self.is_cancelled: break` before each account
SeqMayStart(p) == (\A q \in Accounts : q < p => pc[q] \in Terminal) /\ ~is_cancelled

\* except Exception in _process_accounts_sequential: the error status, then
\* BatchWeChatScraper._trigger_error reads self.callbacks['error'], a key the callback
\* table does not have: KeyError leaves the handler, the loop and start_batch_scrape
SeqPipelineFails(p, msg) ==
    /\ pc' = [pc EXCEPT ![p] = "raised"]
    /\ status' = [status EXCEPT ![p] = "error"]
    /\ errmsg' = [errmsg EXCEPT ![p] = msg]
    /\ lastEvent' = "account_status"
    /\ phase' = "raised"

\* an exception leaves _scrape_single_account: the sequential loop catches it at once,
\* in the thread pool it is stored in the future
SyncFails(p, msg) ==
    IF impl = "sequential"
    THEN SeqPipelineFails(p, msg)
    ELSE /\ pc' = [pc EXCEPT ![p] = "raised"]
         /\ errmsg' = [errmsg EXCEPT ![p] = msg]
         /\ UNCHANGED <<status, lastEvent, phase>>

\* _scrape_single_account returns `result`; the sequential loop at once extends
\* all_articles and reports "completed", the thread pool keeps it in the future
SyncReturn(p, result, st, ev) ==
    /\ articles' = [articles EXCEPT ![p] = result]
    /\ pc' = [pc EXCEPT ![p] = "returned"]
    /\ IF impl = "sequential"
       THEN /\ all_articles' = all_articles \o result
            /\ total_articles_count' = Len(all_articles) + Len(result)
            /\ status' = [status EXCEPT ![p] = "completed"]
            /\ lastEvent' = "account_status"
       ELSE /\ status' = [status EXCEPT ![p] = st]
            /\ lastEvent' = ev
            /\ UNCHANGED <<all_articles, total_articles_count>>

\* _process_accounts_sequential: "processing", then _scrape_single_account: "searching"
\* and the search request; executor.submit(self._scrape_single_account, ...) likewise
SyncStart(p) ==
    /\ impl # "async" /\ phase = "running"
    /\ NextPending(p)
    /\ IF impl = "sequential" THEN SeqMayStart(p) ELSE WorkerFree
    /\ pc' = [pc EXCEPT ![p] = "searching"]
    /\ status' = [status EXCEPT ![p] = "searching"]
    /\ lastEvent' = "article_progress"
    /\ UNCHANGED <<cfgvars, article_count, schedvars, aggvars, reqvars, is_cancelled, errmsg, articles>>

\* WeChatScraper.search_account returns (get_fakid; any exception gives []):
\* an empty list raises, else "fetching" and the page loop
SyncLookupReply(p, out) ==
    /\ impl # "async" /\ pc[p] = "searching"
    /\ lookup' = [lookup EXCEPT ![p] = out]
    /\ seen' = Seen(p, out)
    /\ IF ~SearchResultsEmpty(out)
       THEN /\ pc' = [pc EXCEPT ![p] = "fetching"]
            /\ status' = [status EXCEPT ![p] = "fetching"]
            /\ lastEvent' = "account_status"
            /\ pg' = [pg EXCEPT ![p] = [i \in Pages |->
                        [st |-> IF i = 0 THEN "wait" ELSE "none", out |-> "none"]]]
            /\ UNCHANGED <<errmsg, phase>>
       ELSE /\ SyncFails(p, NotFoundMsg(p))
            /\ UNCHANGED pg
    /\ UNCHANGED <<cfgvars, article_count, aggvars, all_articles, collected, loop_exited, batch_completed,
                   is_cancelled, bd, articles>>

\* end of the body loop: keyword filter, return articles_in_range
SyncBodiesDone(p, arts, ev) ==
    IF content_keyword_filter # <<>>
    THEN LET kept == filter_articles_by_keyword(arts, content_keyword_filter)
             filtered_out == Len(arts) - Len(kept) IN
         /\ SyncReturn(p, kept, "filtering", "article_progress")
         /\ article_count' = [article_count EXCEPT
                                ![p] = total_articles_count - filtered_out + Len(kept)]
    ELSE /\ SyncReturn(p, arts, "content", ev)
         /\ UNCHANGED article_count

\* end of _get_articles_with_progress: "filtering", date filter, then "content" and the
\* body loop, or return
SyncListDone(p, raw) ==
    LET inrange == WeChatScraper_filter_articles_by_date(raw) IN
    /\ pg' = [pg EXCEPT ![p] = [i \in Pages |->
                [st |-> IF @[i].st = "none" THEN "none" ELSE "done", out |-> "none"]]]
    /\ article_count' = [article_count EXCEPT ![p] = total_articles_count + Len(inrange)]
    /\ IF FetchesBodies(inrange)
       THEN /\ articles' = [articles EXCEPT ![p] = inrange]
            /\ pc' = [pc EXCEPT ![p] = "content"]
            /\ status' = [status EXCEPT ![p] = "content"]
            /\ lastEvent' = "account_status"
            /\ bd' = [bd EXCEPT ![p] = [BodyTasks(inrange, "none") EXCEPT ![1].st = "wait"]]
            /\ UNCHANGED <<all_articles, total_articles_count>>
       ELSE /\ SyncReturn(p, inrange, "filtering", "article_progress")
            /\ UNCHANGED bd

\* _get_articles_with_progress, loop head: `if self.is_cancelled: break`, else the
\* progress event and the list request of the next page
SyncPageStep(p, i) ==
    /\ impl # "async" /\ pc[p] = "fetching"
    /\ pg[p][i].st = "wait"
    /\ IF is_cancelled
       THEN SyncListDone(p, articles[p])
       ELSE /\ pg' = [pg EXCEPT ![p][i].st = "req"]
            /\ lastEvent' = "article_progress"
            /\ UNCHANGED <<pc, status, articles, bd, all_articles, total_articles_count,
                           article_count>>
    /\ UNCHANGED <<cfgvars, phase, collected, loop_exited, batch_completed,
                   collected_articles, is_cancelled, errmsg, lookup, seen>>

\* get_articles_list(page_num=1, ...) returns: posts are appended and the loop goes on,
\* no app_msg_list or an empty one ends the loop, a requests exception propagates (the
\* pages fetched so far are lost with the frame)
SyncPageReply(p, i, out) ==
    /\ impl # "async" /\ pc[p] = "fetching"
    /\ pg[p][i].st = "req"
    /\ seen' = Seen(p, out)
    /\ IF out = "error"
       THEN /\ SyncFails(p, TransportMsg)
            /\ articles' = [articles EXCEPT ![p] = <<>>]
            /\ UNCHANGED <<pg, bd, all_articles, total_articles_count, article_count>>
       ELSE LET raw == articles[p] \o PageRecords(p, i, out) IN
            /\ IF PostsOf(out) # <<>> /\ i + 1 < MaxPages
               THEN /\ pg' = [pg EXCEPT ![p][i] = [st |-> "done", out |-> "none"],
                                        ![p][i + 1].st = "wait"]
                    /\ articles' = [articles EXCEPT ![p] = raw]
                    /\ UNCHANGED <<pc, status, bd, all_articles, total_articles_count,
                                   lastEvent, article_count>>
               ELSE SyncListDone(p, raw)
            /\ UNCHANGED <<errmsg, phase>>
    /\ UNCHANGED <<cfgvars, collected, loop_exited, batch_completed, collected_articles,
                   is_cancelled, lookup>>

\* body loop head: `if self.is_cancelled: break`, else the content_progress event and
\* get_article_content_by_url
SyncBodyStep(p, j) ==
    /\ impl # "async" /\ pc[p] = "content"
    /\ j \in DOMAIN bd[p] /\ bd[p][j].st = "wait"
    /\ IF is_cancelled
       THEN /\ SyncBodiesDone(p, articles[p], lastEvent)
            /\ UNCHANGED bd
       ELSE /\ bd' = [bd EXCEPT ![p][j].st = "req"]
            /\ lastEvent' = "content_progress"
            /\ UNCHANGED <<pc, status, articles, all_articles, total_articles_count,
                           article_count>>
    /\ UNCHANGED <<cfgvars, phase, collected, loop_exited, batch_completed,
                   collected_articles, is_cancelled, errmsg, lookup, seen, pg>>

\* utils.get_article_content: one attempt ends; time.sleep(retry_delay) and the next
\* attempt, or the content (the error text after the last failure) is stored
SyncBodyReply(p, j, out) ==
    /\ impl # "async" /\ pc[p] = "content"
    /\ j \in DOMAIN bd[p] /\ bd[p][j].st = "req"
    /\ IF Retries(out, bd[p][j].att)
       THEN /\ bd' = [bd EXCEPT ![p][j].att = @ + 1]
            /\ UNCHANGED <<pc, status, articles, all_articles, total_articles_count,
                           lastEvent, seen, article_count>>
       ELSE LET arts == SetContent(articles[p], articles[p][j], ContentOf(out)) IN
            /\ seen' = IF out = "fail" THEN [seen EXCEPT ![p] = @ \cup {"bodyfail"}] ELSE seen
            /\ IF j < Len(articles[p])
               THEN /\ bd' = [bd EXCEPT ![p][j] = [st |-> "done", att |-> 0],
                                        ![p][j + 1].st = "wait"]
                    /\ articles' = [articles EXCEPT ![p] = arts]
                    /\ UNCHANGED <<pc, status, all_articles, total_articles_count, lastEvent,
                                   article_count>>
               ELSE /\ bd' = [bd EXCEPT ![p][j] = [st |-> "done", att |-> 0]]
                    /\ SyncBodiesDone(p, arts, lastEvent)
    /\ UNCHANGED <<cfgvars, phase, collected, loop_exited, batch_completed,
                   collected_articles, is_cancelled, errmsg, lookup, pg>>

\* for future in as_completed(...): result or exception of one finished future,
\* then `if self.is_cancelled: break`; after the error status of a failed future
\* _trigger_error raises KeyError (self.callbacks['error']) and the loop is left
ThreadCollect(p) ==
    /\ impl = "threaded" /\ phase = "running"
    /\ ~loop_exited
    /\ pc[p] \in {"returned", "raised"} /\ p \notin collected
    /\ IF pc[p] = "returned"
       THEN /\ all_articles' = all_articles \o articles[p]
            /\ total_articles_count' = Len(all_articles) + Len(articles[p])
            /\ status' = [status EXCEPT ![p] = "completed"]
            /\ lastEvent' = "account_status"
       ELSE /\ status' = [status EXCEPT ![p] = "error"]
            /\ lastEvent' = "account_status"
            /\ UNCHANGED <<all_articles, total_articles_count>>
    /\ collected' = collected \cup {p}
    /\ loop_exited' = (is_cancelled \/ pc[p] = "raised")
    /\ UNCHANGED <<cfgvars, article_count, reqvars, phase, batch_completed, collected_articles,
                   is_cancelled, pc, errmsg, articles>>

\* the sequential loop has ended (after the last account, or by break on cancel)
SeqFinish ==
    /\ impl = "sequential" /\ phase = "running"
    /\ \A p \in Accounts : pc[p] \in Terminal \cup {"pending"}
    /\ (\E p \in Accounts : pc[p] = "pending") => is_cancelled
    /\ Finalize(all_articles)
    /\ UNCHANGED <<cfgvars, article_count, aggvars, reqvars, is_cancelled, pc, status, errmsg, articles,
                   collected, loop_exited>>

\* the as_completed loop has ended and the `with ThreadPoolExecutor` block has waited
\* for every submitted future; the KeyError of a failed future's handler then leaves
\* start_batch_scrape
ThreadFinish ==
    /\ impl = "threaded" /\ phase = "running"
    /\ loop_exited \/ collected = Accounts
    /\ \A p \in Accounts : pc[p] \in Terminal
    /\ IF \E p \in collected : pc[p] = "raised"
       THEN /\ phase' = "raised"
            /\ UNCHANGED <<all_articles, batch_completed, lastEvent>>
       ELSE Finalize(all_articles)
    /\ UNCHANGED <<cfgvars, article_count, aggvars, reqvars, is_cancelled, pc, status, errmsg, articles,
                   collected, loop_exited>>

NextAsync ==
    \/ \E p \in Accounts : AsyncAdmit(p)
    \/ \E p \in Accounts, out \in LookupOutcomes : AsyncLookupReply(p, out)
    \/ \E p \in Accounts, i \in Pages : AsyncPageAcquire(p, i)
    \/ \E p \in Accounts, i \in Pages, out \in PageOutcomes : AsyncPageReply(p, i, out)
    \/ \E p \in Accounts : AsyncListDone(p)
    \/ \E p \in Accounts, j \in 1..MaxPages : AsyncBodyAcquire(p, j)
    \/ \E p \in Accounts, j \in 1..MaxPages, out \in BodyOutcomes : AsyncBodyReply(p, j, out)
    \/ \E p \in Accounts : AsyncBodiesDone(p)
    \/ AsyncGather

NextSync ==
    \/ \E p \in Accounts : SyncStart(p)
    \/ \E p \in Accounts, out \in LookupOutcomes : SyncLookupReply(p, out)
    \/ \E p \in Accounts, i \in Pages : SyncPageStep(p, i)
    \/ \E p \in Accounts, i \in Pages, out \in PageOutcomes : SyncPageReply(p, i, out)
    \/ \E p \in Accounts, j \in 1..MaxPages : SyncBodyStep(p, j)
    \/ \E p \in Accounts, j \in 1..MaxPages, out \in BodyOutcomes : SyncBodyReply(p, j, out)
    \/ \E p \in Accounts : ThreadCollect(p)
    \/ SeqFinish
    \/ ThreadFinish

\* ---- functions called on their own ------------------------------------------
\* publish_timestamp values of the lists the date filters are called with: none, before
\* the epoch, the last second before the window, its first and its last second, the
\* first second after it
Timestamps ==
    {0, -86400, Window.start * 86400 - 1, Window.start * 86400,
     Window.end * 86400 + 86399, (Window.end + 1) * 86400}

TimestampLists == UNION {[1..n -> Timestamps] : n \in 0..MaxListLen}

\* the article list with these timestamps
ArticlesAt(tss) == [k \in 1..Len(tss) |-> Article(1, 0, k, tss[k])]

\* self._filter_articles_by_date(articles, start_date, end_date)
FilterDateCall ==
    /\ op = "filter_date"
    /\ Return(filter_articles_by_date(ArticlesAt(arg)))

\* self.scraper.filter_articles_by_date(all_articles, start_date, end_date)
FilterDateSyncCall ==
    /\ op = "filter_date_sync"
    /\ Return(WeChatScraper_filter_articles_by_date(ArticlesAt(arg)))

\* bodies and keywords the keyword filter is called with
Bodies == UNION {[1..n -> {"k", "W", "x"}] : n \in 0..MaxBodyLen}
BodyLists == UNION {[1..n -> Bodies] : n \in 0..MaxListLen}
Keywords == {<<>>, <<"w">>, <<"K", "w">>}

\* the article list with these bodies
ArticlesWith(bodies) ==
    [k \in 1..Len(bodies) |-> [Article(1, 0, k, UpdateTimes.in) EXCEPT !.content = bodies[k]]]

\* self._filter_articles_by_keyword(articles_in_range, content_keyword_filter)
FilterKeywordCall ==
    /\ op = "filter_keyword"
    /\ Return(filter_articles_by_keyword(ArticlesWith(arg.bodies), arg.keyword))

\* the responses of the remote to the requests of one pipeline: to the search, to
\* each list page, to the body request of each record
Responses ==
    [lookup : LookupOutcomes, pages : [Pages -> PageOutcomes],
     bodies : [1..MaxPages -> BodyOutcomes]]

\* article['content'] = content, for every article of the list
WithBodies(arts, bodies) ==
    [k \in 1..Len(arts) |-> [arts[k] EXCEPT !.content = ContentOf(bodies[k])]]

\* body phase and keyword filter of a pipeline
BodyPhase(inrange, bodies) ==
    IF FetchesBodies(inrange)
    THEN filter_articles_by_keyword(WithBodies(inrange, bodies), content_keyword_filter)
    ELSE inrange

\* scrape_single_account of a batch with one account, run to its end: the status it
\* ends with and the list it returns
AsyncPipelineResult(r) ==
    IF SearchResultsEmpty(r.lookup)
    THEN [state |-> "error", records |-> <<>>]
    ELSE LET outs == [i \in Pages |-> [st |-> "done", out |-> r.pages[i]]]
             inrange == filter_articles_by_date(MergePages(1, outs, 0)) IN
         [state |-> "completed", records |-> BodyPhase(inrange, r.bodies)]

\* _get_articles_with_progress: pages are appended until one has no posts
RECURSIVE get_articles_with_progress(_, _)
get_articles_with_progress(pages, i) ==
    IF i = MaxPages \/ PostsOf(pages[i]) = <<>>
    THEN <<>>
    ELSE PageRecords(1, i, pages[i]) \o get_articles_with_progress(pages, i + 1)

\* a list request of the page loop raises
PageLoopRaises(pages) ==
    \E i \in Pages : /\ pages[i] = "error"
                     /\ \A j \in 0..(i - 1) : PostsOf(pages[j]) # <<>>

\* _scrape_single_account of a batch with one account, run to its end
SyncPipelineResult(r) ==
    IF SearchResultsEmpty(r.lookup) \/ PageLoopRaises(r.pages)
    THEN [state |-> "error", records |-> <<>>]
    ELSE LET inrange == WeChatScraper_filter_articles_by_date(
                            get_articles_with_progress(r.pages, 0)) IN
         [state |-> "completed", records |-> BodyPhase(inrange, r.bodies)]

\* AsyncBatchWeChatScraper.start_batch_scrape(config) against these responses
AsyncScraperCall ==
    /\ op = "scrapers" /\ res.val = <<>>
    /\ Store([done |-> FALSE, val |-> <<AsyncPipelineResult(arg)>>])

\* BatchWeChatScraper.start_batch_scrape(config) against the same responses
SyncScraperCall ==
    /\ op = "scrapers" /\ Len(res.val) = 1
    /\ Return(res.val \o <<SyncPipelineResult(arg)>>)

\* ---- cache_codec ---------------------------------------------------------------
\* Python values: a str, an int or a float by its literal, a dict as the sequence of
\* its items in insertion order
PyStr(s) == [type |-> "str", v |-> s]
PyInt(s) == [type |-> "int", v |-> s]
PyFloat(s) == [type |-> "float", v |-> s]
PyDict(items) == [type |-> "dict", v |-> items]
Item(k, x) == [key |-> k, val |-> x]

\* the sessions encode_cache_data is called with: a token that is a number string, a
\* blank or the empty string; cookies with no, one, two or three names or with an int
\* key; a timestamp that is an int, the float nan or a string
SessionTokens == {PyStr("7"), PyStr(" "), PyStr("")}
CookieJars ==
    {<<>>,
     <<Item(PyStr("s"), PyStr("v"))>>,
     <<Item(PyStr("s"), PyStr("v")), Item(PyStr("t"), PyStr("v"))>>,
     <<Item(PyStr("s"), PyStr("v")), Item(PyStr("t"), PyStr("v")),
       Item(PyStr("u"), PyStr("v"))>>,
     <<Item(PyInt("1"), PyStr("v"))>>}
SessionStamps == {PyInt("5"), PyFloat("NaN"), PyStr("5")}

Session(token, cookies, timestamp) ==
    PyDict(<<Item(PyStr("token"), token), Item(PyStr("cookies"), PyDict(cookies)),
             Item(PyStr("timestamp"), timestamp)>>)

Sessions ==
    {Session(t, c, ts) : t \in SessionTokens, c \in CookieJars, ts \in SessionStamps}

\* `field in data`
HasKey(data, k) == \E i \in 1..Len(data.v) : data.v[i].key = PyStr(k)

\* data.get(field)
Get(data, k) == data.v[CHOOSE i \in 1..Len(data.v) : data.v[i].key = PyStr(k)].val

\* str.strip() of the strings of the model
strip(s) == IF s = " " THEN "" ELSE s

\* _validate_cache_data raises nothing: a dict with the required fields, token a str
\* with `token.strip()`, cookies a non-empty dict, timestamp an int or a float
validate_cache_data(data) ==
    /\ data.type = "dict"
    /\ \A f \in {"token", "cookies", "timestamp"} : HasKey(data, f)
    /\ Get(data, "token").type = "str" /\ strip(Get(data, "token").v) # ""
    /\ Get(data, "cookies").type = "dict" /\ Get(data, "cookies").v # <<>>
    /\ Get(data, "timestamp").type \in {"int", "float"}

\* the lexical tokens of a JSON text
Punct(c) == [kind |-> "punct", text |-> c]
JStr(s) == [kind |-> "str", text |-> s]
JNum(s) == [kind |-> "num", text |-> s]

\* json.dumps(data, ensure_ascii=False, separators=(',', ':')): dict keys that are not
\* str are written as their str(), nan is written NaN
RECURSIVE json_dumps(_)
RECURSIVE dumps_items(_)
dumps_items(items) ==
    IF items = <<>> THEN <<>>
    ELSE <<JStr(items[1].key.v), Punct(":")>> \o json_dumps(items[1].val)
         \o (IF Len(items) > 1 THEN <<Punct(",")>> \o dumps_items(Tail(items)) ELSE <<>>)

json_dumps(x) ==
    CASE x.type = "str" -> <<JStr(x.v)>>
      [] x.type \in {"int", "float"} -> <<JNum(x.v)>>
      [] x.type = "dict" -> <<Punct("{")>> \o dumps_items(x.v) \o <<Punct("}")>>

\* the tokens a JSON text of the model is made of; the text is held as bytes with one
\* byte for each token
Lexicon ==
    <<Punct("{"), Punct("}"), Punct(":"), Punct(","), JStr("token"), JStr("cookies"),
      JStr("timestamp"), JStr("7"), JStr(" "), JStr(""), JStr("s"), JStr("t"), JStr("u"),
      JStr("v"), JStr("1"), JStr("5"), JNum("1"), JNum("5"), JNum("NaN")>>

\* json_str.encode('utf-8')
encode_utf8(toks) ==
    [i \in 1..Len(toks) |-> CHOOSE b \in 1..Len(Lexicon) : Lexicon[b] = toks[i]]

\* json_bytes.decode('utf-8')
decode_utf8(bytes) == [i \in 1..Len(bytes) |-> Lexicon[bytes[i]]]

Failed == [ok |-> FALSE]

\* json.loads(json_str): a number token without fraction is an int, NaN is a float
RECURSIVE ParseValue(_, _)
RECURSIVE ParseItems(_, _, _)
ParseItems(t, i, acc) ==
    IF i + 1 > Len(t) \/ t[i].kind # "str" \/ t[i + 1] # Punct(":")
    THEN Failed
    ELSE LET x == ParseValue(t, i + 2) IN
         IF ~x.ok \/ x.next > Len(t)
         THEN Failed
         ELSE LET items == Append(acc, Item(PyStr(t[i].text), x.val)) IN
              CASE t[x.next] = Punct(",") -> ParseItems(t, x.next + 1, items)
                [] t[x.next] = Punct("}") ->
                     [ok |-> TRUE, val |-> PyDict(items), next |-> x.next + 1]
                [] OTHER -> Failed

ParseValue(t, i) ==
    IF i > Len(t) THEN Failed
    ELSE CASE t[i].kind = "str" -> [ok |-> TRUE, val |-> PyStr(t[i].text), next |-> i + 1]
           [] t[i].kind = "num" ->
                [ok |-> TRUE, next |-> i + 1,
                 val |-> IF t[i].text = "NaN" THEN PyFloat("NaN") ELSE PyInt(t[i].text)]
           [] t[i] = Punct("{") ->
                IF i + 1 <= Len(t) /\ t[i + 1] = Punct("}")
                THEN [ok |-> TRUE, val |-> PyDict(<<>>), next |-> i + 2]
                ELSE ParseItems(t, i + 1, <<>>)
           [] OTHER -> Failed

json_loads(t) ==
    LET x == ParseValue(t, 1) IN
    IF x.ok /\ x.next = Len(t) + 1 THEN x ELSE Failed

\* zlib.compress(json_bytes, level=9), as the two header bytes of that level and the
\* data; zlib.decompress
compress(bytes) == <<120, 218>> \o bytes
decompress(bytes) ==
    IF Len(bytes) >= 2 /\ bytes[1] = 120 /\ bytes[2] = 218
    THEN [ok |-> TRUE, val |-> SubSeq(bytes, 3, Len(bytes))]
    ELSE Failed

\* zlib.crc32(compressed) & 0xffffffff, as a position-weighted sum of the bytes that
\* uses the low 16 bits of the 32
RECURSIVE crc32(_)
crc32(bytes) ==
    IF bytes = <<>> THEN 0
    ELSE (crc32(SubSeq(bytes, 1, Len(bytes) - 1)) * 31 + bytes[Len(bytes)]) % (2 ^ 16)

\* struct.pack('>I', checksum)
pack(n) ==
    <<(n \div (2 ^ 24)) % 256, (n \div (2 ^ 16)) % 256, (n \div (2 ^ 8)) % 256, n % 256>>

\* the URL-safe base64 alphabet
B64Chars ==
    <<"A", "B", "C", "D", "E", "F", "G", "H", "I", "J", "K", "L", "M", "N", "O", "P",
      "Q", "R", "S", "T", "U", "V", "W", "X", "Y", "Z", "a", "b", "c", "d", "e", "f",
      "g", "h", "i", "j", "k", "l", "m", "n", "o", "p", "q", "r", "s", "t", "u", "v",
      "w", "x", "y", "z", "0", "1", "2", "3", "4", "5", "6", "7", "8", "9", "-", "_">>

Sextet(c) == CHOOSE n \in 0..63 : B64Chars[n + 1] = c

\* base64.urlsafe_b64encode(payload)
RECURSIVE urlsafe_b64encode(_)
urlsafe_b64encode(b) ==
    CASE Len(b) = 0 -> <<>>
      [] Len(b) = 1 ->
           <<B64Chars[(b[1] \div 4) + 1], B64Chars[(b[1] % 4) * 16 + 1], "=", "=">>
      [] Len(b) = 2 ->
           <<B64Chars[(b[1] \div 4) + 1], B64Chars[(b[1] % 4) * 16 + (b[2] \div 16) + 1],
             B64Chars[(b[2] % 16) * 4 + 1], "=">>
      [] OTHER ->
           <<B64Chars[(b[1] \div 4) + 1], B64Chars[(b[1] % 4) * 16 + (b[2] \div 16) + 1],
             B64Chars[(b[2] % 16) * 4 + (b[3] \div 64) + 1], B64Chars[(b[3] % 64) + 1]>>
           \o urlsafe_b64encode(SubSeq(b, 4, Len(b)))

\* b64_encoded.rstrip('=')
RECURSIVE rstrip_pad(_)
rstrip_pad(s) ==
    IF s # <<>> /\ s[Len(s)] = "=" THEN rstrip_pad(SubSeq(s, 1, Len(s) - 1)) ELSE s

\* base64.urlsafe_b64decode accepts the string: whole groups of four characters
B64Valid(s) ==
    /\ Len(s) % 4 = 0
    /\ \A i \in 1..Len(s) :
          s[i] = "=" => (i > Len(s) - 2 /\ \A j \in i..Len(s) : s[j] = "=")

\* base64.urlsafe_b64decode(b64_data)
RECURSIVE urlsafe_b64decode(_)
urlsafe_b64decode(s) ==
    IF s = <<>> THEN <<>>
    ELSE LET b1 == Sextet(s[1]) * 4 + (Sextet(s[2]) \div 16) IN
         CASE s[3] = "=" -> <<b1>>
           [] s[3] # "=" /\ s[4] = "=" ->
                <<b1, (Sextet(s[2]) % 16) * 16 + (Sextet(s[3]) \div 4)>>
           [] OTHER ->
                <<b1, (Sextet(s[2]) % 16) * 16 + (Sextet(s[3]) \div 4),
                  (Sextet(s[3]) % 4) * 64 + Sextet(s[4])>>
                \o urlsafe_b64decode(SubSeq(s, 5, Len(s)))

CODEC_VERSION_PREFIX == <<"W", "C", "0", "1">>

\* a test of the first character alone
startswith_initial(s, prefix) == s # <<>> /\ s[1] = prefix[1]

\* encoded_str.startswith(prefix)
startswith(s, prefix) == Len(s) >= Len(prefix) /\ SubSeq(s, 1, Len(prefix)) = prefix

\* encode_cache_data(data): the encoded string, or the exception it raises
encode_cache_data(data) ==
    IF ~validate_cache_data(data)
    THEN [ok |-> FALSE, err |-> "ValidationError"]
    ELSE LET compressed == compress(encode_utf8(json_dumps(data)))
             payload == compressed \o pack(crc32(compressed)) IN
         [ok |-> TRUE, val |-> CODEC_VERSION_PREFIX \o rstrip_pad(urlsafe_b64encode(payload))]

\* a padding count that is not reduced modulo 4
padding_needed_unreduced(n) == 4 - (n % 4)

\* padding_needed = (4 - len(b64_data) % 4) % 4
padding_needed(n) == (4 - (n % 4)) % 4

\* decode_cache_data(encoded_str) of a string without surrounding white space: the
\* data, or the exception it raises. stored_checksum != calculated_checksum is taken
\* on the four bytes, struct.unpack('>I') being one-to-one on them
decode_cache_data(encoded_str) ==
    IF encoded_str = <<>> THEN [ok |-> FALSE, err |-> "DecodeError"]
    ELSE IF ~startswith(encoded_str, CODEC_VERSION_PREFIX)
    THEN [ok |-> FALSE,
          err |-> IF startswith(encoded_str, <<"W", "C">>) THEN "VersionError"
                  ELSE "DecodeError"]
    ELSE LET b64 == SubSeq(encoded_str, Len(CODEC_VERSION_PREFIX) + 1, Len(encoded_str))
             b64_data == b64 \o [i \in 1..padding_needed(Len(b64)) |-> "="] IN
         IF b64 = <<>> \/ ~B64Valid(b64_data)
         THEN [ok |-> FALSE, err |-> "DecodeError"]
         ELSE LET payload == urlsafe_b64decode(b64_data) IN
              IF Len(payload) < 5
              THEN [ok |-> FALSE, err |-> "DecodeError"]
              ELSE LET compressed == SubSeq(payload, 1, Len(payload) - 4)
                       checksum_bytes == SubSeq(payload, Len(payload) - 3, Len(payload))
                       json_bytes == decompress(compressed) IN
                   IF checksum_bytes # pack(crc32(compressed))
                   THEN [ok |-> FALSE, err |-> "ChecksumError"]
                   ELSE IF ~json_bytes.ok
                   THEN [ok |-> FALSE, err |-> "DecodeError"]
                   ELSE LET data == json_loads(decode_utf8(json_bytes.val)) IN
                        IF ~data.ok
                        THEN [ok |-> FALSE, err |-> "DecodeError"]
                        ELSE IF ~validate_cache_data(data.val)
                        THEN [ok |-> FALSE, err |-> "ValidationError"]
                        ELSE [ok |-> TRUE, val |-> data.val]

\* encoded = encode_cache_data(session)
EncodeCall ==
    /\ op = "codec" /\ res.val = <<>>
    /\ LET encoded == encode_cache_data(arg) IN
       IF encoded.ok
       THEN Store([done |-> FALSE, val |-> <<encoded>>])
       ELSE Return(<<encoded>>)

\* decode_cache_data(encoded)
DecodeCall ==
    /\ op = "codec" /\ Len(res.val) = 1
    /\ Return(res.val \o <<decode_cache_data(res.val[1].val)>>)

\* ---- decode_cache_data and `validate STR` on received strings -------------------
\* what an encoder that does not validate puts around compressed bytes: the checksum,
\* the base64 text without padding and the prefix
Seal(compressed) ==
    CODEC_VERSION_PREFIX \o rstrip_pad(urlsafe_b64encode(compressed \o pack(crc32(compressed))))

\* the string with its i-th character replaced by the next one of the alphabet
NextChar(e, i) == [e EXCEPT ![i] = B64Chars[((Sextet(e[i]) + 1) % 64) + 1]]

\* the strings of well-formed sessions
Encoded == {encode_cache_data(x).val : x \in {y \in Sessions : validate_cache_data(y)}}

\* the strings decode_cache_data is called with: the empty string, strings without the
\* WC prefix, with WC alone or another version, the prefix alone, one and six base64
\* characters, sealed bytes that are not a zlib stream, sealed zlib streams that are
\* not JSON, sealed JSON of every session, and each encoded string with one character
\* replaced
EncodedStrings ==
    {<<>>, <<"X">>, <<"X", "C", "0", "1", "A", "A">>, <<"W", "C">>,
     <<"W", "C", "0", "2", "A", "A">>, CODEC_VERSION_PREFIX,
     CODEC_VERSION_PREFIX \o <<"A">>,
     CODEC_VERSION_PREFIX \o <<"A", "A", "A", "A", "A", "A">>,
     CODEC_VERSION_PREFIX \o <<"A", "A", "A", "A", "A", "A", "A", "A", "A", "A", "A">>}
    \cup {Seal(bytes) : bytes \in {<<1>>, <<1, 2, 3, 4>>, <<120, 218>>, <<120, 218, 1>>,
                                   <<120, 218, 1, 8, 2>>}}
    \cup {Seal(compress(encode_utf8(json_dumps(x)))) : x \in Sessions}
    \cup UNION {{NextChar(e, i) : i \in (Len(CODEC_VERSION_PREFIX) + 1)..Len(e)} :
                  e \in Encoded}

\* validate_encoded_string(encoded_str)[0] of a string without surrounding white space
validate_encoded_string(encoded_str) ==
    /\ encoded_str # <<>>
    /\ startswith(encoded_str, CODEC_VERSION_PREFIX)
    /\ LET b64 == SubSeq(encoded_str, Len(CODEC_VERSION_PREFIX) + 1, Len(encoded_str))
           b64_data == b64 \o [i \in 1..padding_needed(Len(b64)) |-> "="] IN
       /\ ~(Len(b64) < 10)
       /\ B64Valid(b64_data)
       /\ ~(Len(urlsafe_b64decode(b64_data)) < 5)

\* main(): the exit status of `validate STR`
main_validate(string) == IF validate_encoded_string(string) THEN 0 ELSE 1

\* decode_cache_data(encoded_str) on a received string
DecodeStringCall ==
    /\ op = "decode" /\ ~res.done
    /\ Return(decode_cache_data(arg))

\* python cache_codec.py validate STR
ValidateCommand ==
    /\ op = "validate" /\ ~res.done
    /\ Return(main_validate(arg))

\* ---- content search --------------------------------------------------------------
\* texts are tuples of characters; a character outside ASCII is written by its code
\* point ("uFF0C" is the fullwidth comma)

\* [A-Za-z0-9_\-\.~:/?#\[\]@!$&\'()+,;=%]
URLChars ==
    {B64Chars[i] : i \in 1..64}
    \cup {".", "~", ":", "/", "?", "#", "[", "]", "@", "!", "$", "&", "'", "(", ")",
          "+", ",", ";", "=", "%"}

\* re.IGNORECASE on the letters of the model
IgnoreCase(c) == IF c = "S" THEN "s" ELSE c

\* wildcard_to_regex(pattern, is_url_pattern): one element of the regular expression
\* for each character of the pattern, an escaped character being a literal
wildcard_to_regex(pattern, is_url_pattern) ==
    [i \in 1..Len(pattern) |->
        CASE pattern[i] = "*" -> [kind |-> "many", url |-> is_url_pattern]
          [] pattern[i] = "?" -> [kind |-> "one", url |-> is_url_pattern]
          [] OTHER -> [kind |-> "lit", c |-> pattern[i]]]

\* the character class of `*` and `?`: the URL characters, or `.` (no line feed)
Accepts(el, c) == IF el.url THEN c \in URLChars ELSE c # "\n"

\* the number of characters of text from i on that el accepts
RECURSIVE Run(_, _, _)
Run(el, text, i) ==
    IF i <= Len(text) /\ Accepts(el, text[i]) THEN 1 + Run(el, text, i + 1) ELSE 0

Largest(ns) == CHOOSE n \in ns : \A m \in ns : m <= n
Smallest(ns) == CHOOSE n \in ns : \A m \in ns : n <= m

\* the position after the match of the elements k.. of regex at position i of text,
\* -1 if there is none; a `*` takes the longest run that lets the rest match
RECURSIVE MatchEnd(_, _, _, _)
MatchEnd(regex, k, text, i) ==
    IF k > Len(regex) THEN i
    ELSE CASE regex[k].kind = "lit" ->
                IF i <= Len(text) /\ IgnoreCase(text[i]) = IgnoreCase(regex[k].c)
                THEN MatchEnd(regex, k + 1, text, i + 1) ELSE -1
           [] regex[k].kind = "one" ->
                IF i <= Len(text) /\ Accepts(regex[k], text[i])
                THEN MatchEnd(regex, k + 1, text, i + 1) ELSE -1
           [] regex[k].kind = "many" ->
                LET ns == {n \in 0..Run(regex[k], text, i) :
                              MatchEnd(regex, k + 1, text, i + n) # -1} IN
                IF ns = {} THEN -1 ELSE MatchEnd(regex, k + 1, text, i + Largest(ns))

\* [match.group() for match in regex.finditer(text)] from position pos on, for a
\* regex that matches no empty string
RECURSIVE finditer(_, _, _)
finditer(regex, text, pos) ==
    LET starts == {b \in pos..Len(text) : MatchEnd(regex, 1, text, b) # -1} IN
    IF starts = {} THEN <<>>
    ELSE LET b == Smallest(starts)
             e == MatchEnd(regex, 1, text, b) IN
         <<SubSeq(text, b, e - 1)>> \o finditer(regex, text, e)

\* invalid_trailing of clean_url, as the list literal is read by Python: between the
\* quotation marks and the fullwidth bracket it holds the two-character string ', '
invalid_trailing ==
    << <<"*">>, <<")">>, <<"]">>, <<">">>, <<"\"">>, <<"'">>, <<"uFF0C">>, <<"u3002">>,
       <<"uFF01">>, <<"uFF1F">>, <<"u3001">>, <<"uFF1B">>, <<"uFF1A">>, <<"\"">>,
       <<"\"">>, <<",", " ">>, <<"uFF09">>, <<"u3011">>, <<"u300B">>, <<"\n">>,
       <<"\r">>, <<"\t">>, <<" ">> >>

\* url.endswith(char)
endswith(url, char) ==
    Len(url) >= Len(char) /\ SubSeq(url, Len(url) - Len(char) + 1, Len(url)) = char

\* clean_url(url): url[:-1] as long as the url ends with an entry of invalid_trailing
RECURSIVE clean_url(_)
clean_url(url) ==
    IF url # <<>> /\ \E i \in 1..Len(invalid_trailing) : endswith(url, invalid_trailing[i])
    THEN clean_url(SubSeq(url, 1, Len(url) - 1))
    ELSE url

\* the loop of extract_urls_from_text over the matches found
RECURSIVE CollectUrls(_, _)
CollectUrls(found, matches) ==
    IF found = <<>> THEN matches
    ELSE LET url == clean_url(found[1]) IN
         CollectUrls(Tail(found),
                     IF url # <<>> /\ ~\E i \in 1..Len(matches) : matches[i] = url
                     THEN Append(matches, url) ELSE matches)

\* extract_urls_from_text(text, url_pattern_regex)
extract_urls_from_text(text, url_pattern_regex) ==
    CollectUrls(finditer(url_pattern_regex, text, 1), <<>>)

\* pattern.startswith('http://') or pattern.startswith('https://')
is_url_pattern(pattern) ==
    \/ startswith(pattern, <<"h", "t", "t", "p", ":", "/", "/">>)
    \/ startswith(pattern, <<"h", "t", "t", "p", "s", ":", "/", "/">>)

\* ContentSearchPage._on_search: self.search_results for the loaded articles (given by
\* their contents) and the pattern: the index of the article and its 'match' strings
RECURSIVE SearchResults(_, _, _)
SearchResults(contents, pattern, n) ==
    IF n > Len(contents) THEN <<>>
    ELSE LET regex == wildcard_to_regex(pattern, is_url_pattern(pattern))
             content == contents[n]
             matches == IF is_url_pattern(pattern)
                        THEN extract_urls_from_text(content, regex)
                        ELSE finditer(regex, content, 1) IN
         (IF content # <<>> /\ matches # <<>>
          THEN <<[article |-> n, matches |-> matches]>> ELSE <<>>)
         \o SearchResults(contents, pattern, n + 1)

on_search(contents, pattern) == SearchResults(contents, pattern, 1)

\* the text "https://pan.example.cn/s/"
Site ==
    <<"h", "t", "t", "p", "s", ":", "/", "/", "p", "a", "n", ".", "e", "x", "a", "m",
      "p", "l", "e", ".", "c", "n", "/", "s", "/">>

\* the pieces the bodies of the loaded articles are made of: links alone and followed
\* by punctuation, and a word
Pieces ==
    {Site \o <<"x">>, Site \o <<"x", ")">>, Site \o <<"x", ",">>,
     Site \o <<"y", ")", ".">>, Site \o <<"y", "uFF0C">>, <<"a", "b">>}

\* "see https://pan.example.cn/s/abc123, and (https://pan.example.cn/s/xyz)."
ExampleBody ==
    <<"s", "e", "e", " ">> \o Site \o <<"a", "b", "c", "1", "2", "3", ",">>
    \o <<" ", "a", "n", "d", " ", "(">> \o Site \o <<"x", "y", "z", ")", ".">>

\* the contents of the loaded articles: one or two pieces with a blank or a line feed
\* between them, and a second article without content, with a word or with a link
SearchContents ==
    {<<ExampleBody>>}
    \cup {<<first, second>> :
            first \in Pieces \cup {a \o sep \o b : a \in Pieces, b \in Pieces,
                                                   sep \in {<<" ">>, <<"\n">>}},
            second \in {<<>>, <<"a", "b">>, Site \o <<"x">>}}

\* the patterns typed: a link pattern, and generic patterns with ? and with *
SearchPatterns ==
    {Site \o <<"*">>, <<"/", "S", "/", "?">>, <<"s", "/", "*">>}

\* the search button: self.search_results after _on_search
SearchCall ==
    /\ op = "search" /\ ~res.done
    /\ Return(on_search(arg.contents, arg.pattern))

\* ---- _extract_image_article_content: add_image ----------------------------------
MaxCandidates == 3

\* an image address by its parts: scheme, host, path, a "/" at the end of the path,
\* and the query string as written in the page ("" for none)
ImageUrl(scheme, host, slash, query) ==
    [scheme |-> scheme, host |-> host, path |-> "img", slash |-> slash, query |-> query]

\* the addresses found in a gallery page: one picture over https and over http, with a
\* "/" at its end, with a query string written with & and with &amp;, and an address
\* of another host
CandidateUrls ==
    {ImageUrl("https", "mmbiz.qpic.cn", FALSE, ""),
     ImageUrl("http", "mmbiz.qpic.cn", FALSE, ""),
     ImageUrl("https", "mmbiz.qpic.cn", TRUE, ""),
     ImageUrl("https", "mmbiz.qpic.cn", FALSE, "wx_fmt=png&amp;from=appmsg"),
     ImageUrl("https", "mmbiz.qpic.cn", FALSE, "wx_fmt=png&from=appmsg"),
     ImageUrl("https", "example.com", FALSE, "")}

CandidateLists == UNION {[1..n -> CandidateUrls] : n \in 1..MaxCandidates}

\* _decode_html_entities(src): &amp; becomes &
decode_html_entities(src) ==
    IF src.query = "wx_fmt=png&amp;from=appmsg"
    THEN [src EXCEPT !.query = "wx_fmt=png&from=appmsg"]
    ELSE src

\* src.split('?')[0] if '?' in src else src
base_url(src) == [src EXCEPT !.query = ""]

\* add_image(src) on seen_urls and content_parts (held in st)
add_image(st, src) ==
    LET decoded == decode_html_entities(src) IN
    IF base_url(decoded) \in st.seen_urls THEN st
    ELSE IF decoded.host # "mmbiz.qpic.cn" THEN st
    ELSE [seen_urls |-> st.seen_urls \cup {base_url(decoded)},
          content_parts |->
              Append(st.content_parts,
                     [alt |-> Cardinality(st.seen_urls) + 1, src |-> decoded])]

\* `for match_tuple in cdn_matches: ... add_image(cdn_url)`
RECURSIVE AddImages(_, _)
AddImages(st, cdn_matches) ==
    IF cdn_matches = <<>> THEN st
    ELSE AddImages(add_image(st, cdn_matches[1]), Tail(cdn_matches))

\* _extract_image_article_content of a page whose script holds the addresses: the
\* image parts of the Markdown body
ImageArticleCall ==
    /\ op = "images" /\ ~res.done
    /\ Return(AddImages([seen_urls |-> {}, content_parts |-> <<>>], arg).content_parts)

\* ---- get_article_content on its own ----------------------------------------------
\* what one attempt meets: a page with a body of MIN_CONTENT_LENGTH or more, a page
\* with a shorter body, a page without any text, a page with a title only, a status
\* other than 200, a timeout, another transport error, another exception
AttemptOutcomes ==
    {"ok", "short", "empty", "title_only", "status", "timeout", "transport", "exception"}

\* the async client and the function of utils.py, with the outcome of each attempt
ContentCalls == [client : {"async", "sync"}, outcomes : [1..max_retries -> AttemptOutcomes]]

\* retry_delay = 2.0 (async), retry_delay=2 (sync), in milliseconds
initial_retry_delay == [ms |-> 2000]

\* min(retry_delay * 1.5, 10), in milliseconds
next_retry_delay(retry_delay) ==
    IF (retry_delay * 3) \div 2 < 10000 THEN (retry_delay * 3) \div 2 ELSE 10000

\* the branch taken after this outcome raises retry_delay: every retrying branch of the
\* async client, the short-content branch alone in utils.py
RaisesDelay(client, out) == client = "async" \/ out \in {"short", "empty", "title_only"}

\* what the last attempt returns: the short content, the text of
\* _extract_all_text_content if there is no content, or the error text
LastContent(out) ==
    CASE out = "short" -> "short content"
      [] out = "empty" -> ""
      [] out = "title_only" -> "# title"
      [] out = "status" -> "qingqiu shibai, zhuangtaima"
      [] out \in {"timeout", "transport"} -> "huoqu wenzhang neirong shibai"

\* the locals of get_article_content when the loop is entered, and later
ContentLocals ==
    IF res.val = <<>>
    THEN [attempt |-> 0, retry_delay |-> initial_retry_delay.ms, slept |-> <<>>,
          content |-> "none"]
    ELSE res.val

\* get_article_content: one pass of `for attempt in range(max_retries)`
ContentAttempt ==
    /\ op = "get_article_content" /\ ~res.done
    /\ LET l == ContentLocals
           out == arg.outcomes[l.attempt + 1]
           made == [l EXCEPT !.attempt = @ + 1] IN
       CASE out = "ok" -> Return([made EXCEPT !.content = "content"])
         [] out = "exception" ->
              Return([made EXCEPT !.content = "huoqu wenzhang neirong shibai"])
         [] out \notin {"ok", "exception"} /\ l.attempt < max_retries - 1 ->
              Store([done |-> FALSE,
                     val |-> [made EXCEPT
                                !.slept = Append(@, l.retry_delay),
                                !.retry_delay = IF RaisesDelay(arg.client, out)
                                                THEN next_retry_delay(@) ELSE @]])
         [] OTHER -> Return([made EXCEPT !.content = LastContent(out)])

\* ---- WeChatSpiderLogin.login ---------------------------------------------------
\* CACHE_EXPIRE_HOURS = 24 * 4
CACHE_EXPIRE_HOURS == 24 * 4

\* the cache file when login() is called: absent, not JSON, JSON without 'timestamp',
\* a session with an empty token, a session
CacheFiles == {"missing", "garbled", "no_timestamp", "empty_token", "session"}

\* seconds between cache_data['timestamp'] and now: just inside the lifetime, exactly
\* the lifetime, just beyond it
CacheAges ==
    {CACHE_EXPIRE_HOURS * 3600 - 1, CACHE_EXPIRE_HOURS * 3600, CACHE_EXPIRE_HOURS * 3600 + 1}

\* the reply to the searchbiz request of validate_cache: base_resp.ret = 0, -6, 200013,
\* another value, a reply without base_resp, an exception of requests
ProbeOutcomes == {"ret0", "ret-6", "ret200013", "ret_other", "no_base_resp", "exception"}

LoginInputs == [file : CacheFiles, age : CacheAges, probe : ProbeOutcomes]

\* load_cache(): the file exists, json.load and cache_data['timestamp'] do not raise,
\* and not `hours_diff > self.cache_expire_hours`
load_cache(in) ==
    /\ in.file \in {"empty_token", "session"}
    /\ ~(in.age > CACHE_EXPIRE_HOURS * 3600)

\* a probe that takes any reply with a base_resp for a valid session
ProbeValidAlways(out) == out \notin {"no_base_resp", "exception"}

\* `if result['base_resp']['ret'] == 0: return True`, every other reply and every
\* exception gives False
ProbeValid(out) == out = "ret0"

\* validate_cache() sends the probe: not `if not self.token or not self.cookies`
SendsProbe(in) == in.file # "empty_token"

\* login(): self.load_cache()
LoginLoadCache ==
    /\ op = "login" /\ res.val = <<>>
    /\ Store([done |-> FALSE,
              val |-> [step |-> IF load_cache(arg) THEN "loaded" ELSE "invalid",
                       file |-> arg.file # "missing", probed |-> FALSE, used |-> FALSE]])

\* login(): `and self.validate_cache()`, then `return True` with the cached session
LoginValidateCache ==
    /\ op = "login" /\ res.val # <<>> /\ res.val.step = "loaded"
    /\ IF SendsProbe(arg) /\ ProbeValid(arg.probe)
       THEN Return([res.val EXCEPT !.step = "returned", !.probed = TRUE, !.used = TRUE])
       ELSE Store([done |-> FALSE,
                   val |-> [res.val EXCEPT !.step = "invalid", !.probed = SendsProbe(arg)]])

\* login(): self.clear_cache(): os.remove(self.cache_file) if the file exists
LoginClearCache ==
    /\ op = "login" /\ res.val # <<>> /\ res.val.step = "invalid"
    /\ Store([done |-> FALSE, val |-> [res.val EXCEPT !.step = "cleared", !.file = FALSE]])

\* login(): the browser is started for the QR login
LoginBootstrap ==
    /\ op = "login" /\ res.val # <<>> /\ res.val.step = "cleared"
    /\ Return([res.val EXCEPT !.step = "bootstrap"])

\* ---- account_status events of one pipeline ----------------------------------------
\* scrape_single_account: the states of the account_status events it emits, in order,
\* when it is admitted without cancel and the remote answers r.lookup and r.pages
scrape_single_account_states(r) ==
    LET outs == [i \in Pages |-> [st |-> "done", out |-> r.pages[i]]]
        inrange == filter_articles_by_date(MergePages(1, outs, 0)) IN
    <<"processing", "searching">>
    \o (IF SearchResultsEmpty(r.lookup)
        THEN <<"error">>
        ELSE <<"fetching", "filtering">>
             \o (IF FetchesBodies(inrange)
                 THEN <<"content">>
                      \o (IF content_keyword_filter # <<>> THEN <<"filtering">> ELSE <<>>)
                 ELSE <<>>)
             \o <<"completed">>)

\* _process_accounts_sequential and _scrape_single_account for one account: the
\* states of the account_status events, in order
sync_scrape_single_account_states(r) ==
    LET inrange == WeChatScraper_filter_articles_by_date(
                       get_articles_with_progress(r.pages, 0)) IN
    <<"processing", "searching">>
    \o (IF SearchResultsEmpty(r.lookup)
        THEN <<"error">>
        ELSE <<"fetching">>
             \o (IF PageLoopRaises(r.pages)
                 THEN <<"error">>
                 ELSE <<"filtering">>
                      \o (IF FetchesBodies(inrange)
                          THEN <<"content">>
                               \o (IF content_keyword_filter # <<>>
                                   THEN <<"filtering">> ELSE <<>>)
                          ELSE <<>>)
                      \o <<"completed">>))

\* one pipeline of each scraper runs to its end against the same responses
AccountStatusCall ==
    /\ op = "account_status"
    /\ Return(<<scrape_single_account_states(arg), sync_scrape_single_account_states(arg)>>)

\* ---- the aggregate of a batch whose accounts may repeat a display name -------------
\* config['accounts'] of these batches: two entries, the same name twice or two names
AccountNames == {<<1, 1>>, <<1, 2>>}

\* articles_in_range of pipeline p: the post of the account's first list page (the same
\* post for both pipelines when they scrape the same account)
InRange(names, p) ==
    <<[Article(p, 0, 1, UpdateTimes.in) EXCEPT !.name = names[p]]>>

\* scraper state before the pipelines commit: each is at its date filter
AggregateStart ==
    [collected_articles |-> <<>>, total_articles_count |-> 0,
     articles |-> [p \in Accounts |-> <<>>], at |-> [p \in Accounts |-> "commit"]]

\* the scraper state the call has reached
Aggregate == IF Len(res.val) = 0 THEN AggregateStart ELSE res.val[1]

\* async with lock: total_articles_count += len(articles_in_range);
\* collected_articles.extend(articles_in_range)
LockedCommit(p) ==
    /\ op = "aggregate" /\ Aggregate.at[p] = "commit"
    /\ LET inrange == InRange(arg.names, p) IN
       Store([done |-> FALSE,
              val |-> <<[Aggregate EXCEPT
                           !.total_articles_count = @ + Len(inrange),
                           !.collected_articles = @ \o inrange,
                           !.articles[p] = inrange,
                           !.at[p] = "content"]>>])

\* get_articles_content_batch of pipeline p is done: its dicts have their content
BodiesFetched(p) ==
    /\ op = "aggregate" /\ Aggregate.at[p] = "content"
    /\ LET a == Aggregate.articles[p][1]
           c == ContentOf(arg.bodies[p]) IN
       Store([done |-> FALSE,
              val |-> <<[Aggregate EXCEPT
                           !.articles[p] = SetContent(@, a, c),
                           !.collected_articles = SetContent(@, a, c),
                           !.at[p] = "filter"]>>])

\* keyword filter, then async with lock: total_articles_count -= filtered_out and the
\* aggregate is rebuilt; the pipeline is done
LockedFilter(p) ==
    /\ op = "aggregate" /\ Aggregate.at[p] = "filter"
    /\ LET before == Aggregate.articles[p]
           kept == filter_articles_by_keyword(before, content_keyword_filter) IN
       Store([done |-> \A q \in Accounts \ {p} : Aggregate.at[q] = "done",
              val |-> <<[Aggregate EXCEPT
                           !.total_articles_count = @ - (Len(before) - Len(kept)),
                           !.collected_articles = remove_filtered(@, arg.names[p], kept),
                           !.articles[p] = kept,
                           !.at[p] = "done"]>>])

\* ---- content_progress events of one body phase -------------------------------------
\* the body phase before its first fetch: no event, no body fetched
BodyPhaseStart == [events |-> <<>>, fetched |-> {}]

\* the events emitted and the bodies fetched so far
Progress == IF Len(res.val) = 0 THEN BodyPhaseStart ELSE res.val[1]

\* content_progress(current, total), emitted when `fetched` bodies have been fetched
ContentProgress(current, fetched) == [current |-> current, fetched |-> Cardinality(fetched)]

\* get_articles_content_batch.fetch_content(index, article) of task j = index + 1, as
\* its get_article_content returns: article['content'] = content, then
\* progress_callback(index + 1, total, ...); the tasks of gather end in any order
fetch_content(j) ==
    /\ op = "content_progress" /\ arg.client = "async"
    /\ j \in 1..arg.total /\ j \notin Progress.fetched
    /\ LET fetched == Progress.fetched \cup {j} IN
       Store([done |-> fetched = 1..arg.total,
              val |-> <<[events |-> Append(Progress.events, ContentProgress(j, fetched)),
                         fetched |-> fetched]>>])

\* BatchWeChatScraper._scrape_single_account, one turn of `for i, article in
\* enumerate(articles_in_range)` without cancel: _trigger_content_progress(i + 1,
\* total_content, ...), then get_article_content_by_url(article)
SyncContentLoop ==
    /\ op = "content_progress" /\ arg.client = "sync"
    /\ LET j == Cardinality(Progress.fetched) + 1
           fetched == Progress.fetched \cup {j} IN
       Store([done |-> fetched = 1..arg.total,
              val |-> <<[events |-> Append(Progress.events,
                                           ContentProgress(j, Progress.fetched)),
                         fetched |-> fetched]>>])

\* ---- decode_to_cache_file -------------------------------------------------------------
\* a path without a file, and a file with its text
NoFile == [exists |-> FALSE, text |-> <<>>]
File(text) == [exists |-> TRUE, text |-> text]

\* the calls checked: strings that decode and strings that fail at each step; the
\* session file and the .backup file absent or present; backup on or off; shutil.copy2
\* succeeds or raises; open(cache_file, 'w') raises, json.dump raises after the file
\* was truncated, or the write succeeds
ImportCalls ==
    [encoded_str : Encoded \cup {<<>>, <<"X">>, Seal(<<1>>), Seal(<<120, 218, 1>>),
                                 Seal(compress(encode_utf8(json_dumps(
                                     Session(PyStr(""), <<>>, PyInt("5"))))))},
     cache_file : {NoFile, File(<<"old">>)},
     backup_file : {NoFile, File(<<"older">>)},
     backup : BOOLEAN,
     copy2 : {"ok", "raises"},
     write : {"ok", "open_raises", "dump_raises"}]

\* a decode_to_cache_file that opens the files before it decodes
decode_to_cache_file_unchecked(call) ==
    LET data == decode_cache_data(call.encoded_str)
        copied == call.backup /\ call.cache_file.exists /\ call.copy2 = "ok" IN
    [raised |-> ~data.ok \/ call.write # "ok",
     backup_file |-> IF copied THEN call.cache_file ELSE call.backup_file,
     cache_file |-> CASE call.write = "open_raises" -> call.cache_file
                      [] call.write = "dump_raises" \/ ~data.ok -> File(<<>>)
                      [] OTHER -> File(json_dumps(data.val))]

\* decode_to_cache_file(encoded_str, cache_file, backup): decode_cache_data raises
\* before any file is opened; then the copy to cache_file + '.backup', whose exception
\* is logged and dropped; then json.dump(data, f, ensure_ascii=False, indent=2) into the
\* file opened with 'w' (the text is the tokens of the dump, white space apart), whose
\* exception is raised as IOError
decode_to_cache_file(call) ==
    LET data == decode_cache_data(call.encoded_str) IN
    IF ~data.ok
    THEN [raised |-> TRUE, backup_file |-> call.backup_file, cache_file |-> call.cache_file]
    ELSE LET copied == call.backup /\ call.cache_file.exists /\ call.copy2 = "ok" IN
         [raised |-> call.write # "ok",
          backup_file |-> IF copied THEN call.cache_file ELSE call.backup_file,
          cache_file |-> CASE call.write = "open_raises" -> call.cache_file
                           [] call.write = "dump_raises" -> File(<<>>)
                           [] OTHER -> File(json_dumps(data.val))]

\* decode_to_cache_file(encoded_str, cache_file, backup) on these files
ImportCall ==
    /\ op = "import"
    /\ Return(decode_to_cache_file(arg))

\* ---- AsyncBatchScrapeWorker.run against cancel() ---------------------------------------
\* rows of the CSV after the header: name, title and link (the post's page and index),
\* publish_time, content of every article, in list order
save_articles_to_csv(arts) ==
    File([k \in 1..Len(arts) |->
            <<arts[k].name, <<arts[k].page, arts[k].idx>>, arts[k].ts, arts[k].content>>])

\* the runs checked: what the pipelines return if they are started, config['output_file']
\* set or not, the output path without a file or with an older one
Returned(name) ==
    [owner |-> name, name |-> name, page |-> 0, idx |-> 1, ts |-> UpdateTimes.in,
     content |-> <<"x", "k", "W">>]

WorkerRuns ==
    [records : {<<>>, <<Returned(1)>>, <<Returned(2), Returned(1)>>},
     output_file : BOOLEAN,
     csv : {NoFile, File(<<"old">>)}]

\* the worker thread was started and has not yet called start_batch_scrape
WorkerStarted ==
    [at |-> "reset", worker_is_cancelled |-> FALSE, is_cancelled |-> FALSE,
     started |-> FALSE, all_articles |-> <<>>, csv |-> arg.csv, events |-> <<>>]

\* the worker and its scraper as the call has left them
Worker == IF Len(res.val) = 0 THEN WorkerStarted ELSE res.val[1]

\* AsyncBatchScrapeWorker.cancel(), from the GUI thread at any moment of run():
\* self.is_cancelled = True; self.async_scraper.cancel_batch_scrape()
WorkerCancel ==
    /\ op = "worker" /\ ~Worker.worker_is_cancelled
    /\ Store([done |-> FALSE,
              val |-> <<[Worker EXCEPT !.worker_is_cancelled = TRUE,
                                       !.is_cancelled = TRUE]>>])

\* start_batch_scrape: self.is_cancelled = False (total_articles_count, collected_articles)
StartBatchReset ==
    /\ op = "worker" /\ Worker.at = "reset"
    /\ Store([done |-> FALSE,
              val |-> <<[Worker EXCEPT !.is_cancelled = FALSE, !.at = "admit"]>>])

\* _async_scrape_all: `if self.is_cancelled: return []` at admission, else the pipelines
\* run and their lists are gathered
AdmitPipelines ==
    /\ op = "worker" /\ Worker.at = "admit"
    /\ Store([done |-> FALSE,
              val |-> <<[Worker EXCEPT
                           !.started = ~Worker.is_cancelled,
                           !.all_articles = IF Worker.is_cancelled THEN <<>>
                                            ELSE arg.records,
                           !.at = "end"]>>])

\* start_batch_scrape after run_until_complete: `if not self.is_cancelled:` the CSV if
\* `output_file and all_articles`, then batch_completed; return all_articles
EndOfBatch ==
    /\ op = "worker" /\ Worker.at = "end"
    /\ LET saves == ~Worker.is_cancelled /\ arg.output_file /\ Worker.all_articles # <<>> IN
       Store([done |-> TRUE,
              val |-> <<[Worker EXCEPT
                           !.csv = IF saves THEN save_articles_to_csv(Worker.all_articles)
                                   ELSE @,
                           !.events = (IF saves THEN <<"csv">> ELSE <<>>)
                                      \o (IF ~Worker.is_cancelled
                                          THEN <<"batch_completed">> ELSE <<>>),
                           !.at = "returned"]>>])

\* ---- WeChatSpiderLogin: the session in memory -------------------------------------------
MaxCalls == 3

\* what the outside gives to one call: the age of the cache file, the reply to the
\* probe, and the course of the browser login (Chrome does not start, no token in the
\* URL before the timeout, driver.get_cookies() raises after the token was taken, or
\* the login completes)
CallInputs ==
    [age : CacheAges, probe : {"ret0", "ret-6", "exception"},
     boot : {"chrome_fails", "no_token", "cookies_raise", "ok"}]

\* self.token / self.cookies by origin: None, the empty token of a cache file, a value
\* loaded from the cache file, a loaded value that passed the probe, a value captured
\* by the browser login; `not value` holds of the first two
Falsy(value) == value \in {"None", "empty"}

\* __init__: self.token = None, self.cookies = None; the cache file as it is on disk
NewLogin(file) ==
    [token |-> "None", cookies |-> "None", file |-> file, ok |-> FALSE, got |-> "-",
     calls |-> 0]

\* self.load_cache() and self.validate_cache(): load_cache assigns self.token and
\* self.cookies from the file before the probe is sent; ok is the value of the `and`
load_and_validate(s, e) ==
    LET in == [file |-> s.file, age |-> e.age, probe |-> e.probe] IN
    IF ~load_cache(in)
    THEN [s EXCEPT !.ok = FALSE]
    ELSE LET l == [s EXCEPT !.token = IF s.file = "empty_token" THEN "empty" ELSE "cached",
                            !.cookies = "cached"] IN
         IF SendsProbe(in) /\ ProbeValid(e.probe)
         THEN [l EXCEPT !.token = "probed", !.cookies = "probed", !.ok = TRUE]
         ELSE [l EXCEPT !.ok = FALSE]

\* login(): the cached session if it loads and passes the probe; else clear_cache()
\* and the browser login, which returns False when Chrome fails, when no token is
\* found, or (token already assigned) when reading the cookies raises
login(s, e) ==
    LET v == load_and_validate(s, e) IN
    IF v.ok THEN v
    ELSE LET c == [v EXCEPT !.file = "missing"] IN
         CASE e.boot = "ok" ->
                [c EXCEPT !.token = "fresh", !.cookies = "fresh", !.file = "session",
                          !.ok = TRUE]
           [] e.boot = "cookies_raise" -> [c EXCEPT !.token = "fresh", !.ok = FALSE]
           [] OTHER -> [c EXCEPT !.ok = FALSE]

\* get_token() / get_cookies(): `if not self.<field> and not (self.load_cache() and
\* self.validate_cache()): return None`, else `return self.<field>`
getter(s, e, field) ==
    IF Falsy(s[field])
    THEN LET v == load_and_validate(s, e) IN
         [v EXCEPT !.got = IF v.ok THEN v[field] ELSE "None"]
    ELSE [s EXCEPT !.got = s[field]]

\* one more call on the object: login(), logout() (clear_cache(), token and cookies set
\* to None), clear_cache() (the file is removed), get_token() or get_cookies()
LoginObjectCall ==
    /\ op = "session"
    /\ \E e \in CallInputs, call \in {"login", "logout", "clear_cache", "token", "cookies"} :
          LET s == IF Len(res.val) = 0 THEN NewLogin(arg) ELSE res.val[1]
              t == CASE call = "login" -> login(s, e)
                     [] call = "logout" ->
                          [s EXCEPT !.token = "None", !.cookies = "None",
                                    !.file = "missing", !.ok = TRUE]
                     [] call = "clear_cache" -> [s EXCEPT !.file = "missing", !.ok = TRUE]
                     [] OTHER -> getter(s, e, call) IN
          Store([done |-> s.calls + 1 = MaxCalls,
                 val |-> <<[t EXCEPT !.calls = s.calls + 1,
                                     !.got = IF call \in {"token", "cookies"}
                                             THEN t.got ELSE "-"]>>])

InitCalls ==
    \/ \E session \in Sessions : InitCall("codec", session)
    \/ \E in \in LoginInputs : InitCall("login", in)
    \/ \E f \in {"decode", "validate"}, e \in EncodedStrings : InitCall(f, e)
    \/ \E cands \in CandidateLists : InitCall("images", cands)
    \/ \E call \in ContentCalls : InitCall("get_article_content", call)
    \/ \E cs \in SearchContents, pat \in SearchPatterns :
          InitCall("search", [contents |-> cs, pattern |-> pat])
    \/ \E f \in {"filter_date", "filter_date_sync"}, a \in TimestampLists : InitCall(f, a)
    \/ \E kw \in Keywords, bs \in BodyLists :
          InitCall("filter_keyword", [keyword |-> kw, bodies |-> bs])
    \/ \E r \in Responses, content \in BOOLEAN, kw \in KeywordConfigs :
          InitCallWith("scrapers", r, content, kw)
    \/ \E lk \in LookupOutcomes, ps \in [Pages -> PageOutcomes],
          content \in BOOLEAN, kw \in KeywordConfigs :
          InitCallWith("account_status", [lookup |-> lk, pages |-> ps], content, kw)
    \/ \E ns \in AccountNames, bs \in [Accounts -> {"kw", "nokw"}] :
          InitCallWith("aggregate", [names |-> ns, bodies |-> bs], TRUE, <<"K", "w">>)
    \/ \E c \in {"async", "sync"}, n \in 1..MaxListLen :
          InitCallWith("content_progress", [client |-> c, total |-> n], TRUE, <<>>)
    \/ \E call \in ImportCalls : InitCall("import", call)
    \/ \E run \in WorkerRuns : InitCall("worker", run)
    \/ \E file \in CacheFiles : InitCall("session", file)

NextCalls ==
    \/ FilterDateCall
    \/ FilterDateSyncCall
    \/ FilterKeywordCall
    \/ AsyncScraperCall
    \/ SyncScraperCall
    \/ EncodeCall
    \/ DecodeCall
    \/ DecodeStringCall
    \/ ValidateCommand
    \/ SearchCall
    \/ ImageArticleCall
    \/ ContentAttempt
    \/ LoginLoadCache
    \/ LoginValidateCache
    \/ LoginClearCache
    \/ LoginBootstrap
    \/ LoginObjectCall
    \/ WorkerCancel
    \/ StartBatchReset
    \/ AdmitPipelines
    \/ EndOfBatch
    \/ ImportCall
    \/ \E j \in 1..MaxListLen : fetch_content(j)
    \/ SyncContentLoop
    \/ \E p \in Accounts : LockedCommit(p)
    \/ \E p \in Accounts : BodiesFetched(p)
    \/ \E p \in Accounts : LockedFilter(p)
    \/ AccountStatusCall

Init == InitBatch \/ InitCalls

Next ==
    \/ StartBatch
    \/ Cancel
    \/ NextAsync
    \/ NextSync
    \/ NextCalls

Spec == Init /\ [][Next]_vars

\* ---- the async batch with every request answered ----------------------------------
\* an async batch is started; the batches that fetch bodies admit one account at a
\* time, so that pipelines wait at the account semaphore
InitAsync ==
    /\ InitBatch
    /\ impl = "async"
    /\ include_content => max_concurrent_accounts = 1

\* the steps of the async batch and of the GUI thread
NextAsyncBatch ==
    \/ StartBatch
    \/ Cancel
    \/ NextAsync

\* every HTTP request returns or times out and the event loop runs every task that can
\* run: a step of the batch that stays possible is taken
FairSpec == InitAsync /\ [][NextAsyncBatch]_vars /\ WF_vars(StartBatch \/ NextAsync)

\* ---- properties -----------------------------------------------------------
\* max_concurrent_publishers of the implementation that runs the batch
MaxConcurrentPublishers ==
    CASE impl = "async" -> max_concurrent_accounts
      [] impl = "threaded" -> max_workers
      [] OTHER -> 1

\* pipelines whose last status event is neither Completed nor Failed
OpenByStatus == {p \in Accounts : status[p] \notin {"none", "completed", "error"}}

\* C1 as amended: at any moment the number of pipelines that have been admitted and
\* whose pipeline function has not yet returned or raised is at most
\* max_concurrent_publishers (async: max_concurrent_accounts, thread pool:
\* min(max_workers, number of accounts), sequential loop: 1).
C1_RunningBound ==
    Cardinality({p \in Accounts : pc[p] \in Running}) <= MaxConcurrentPublishers

\* C1 as stated: the number of pipelines that have emitted their first status and have
\* not yet reached the Completed or Failed status is at most max_concurrent_publishers.
C1_OpenStatusBound == Cardinality(OpenByStatus) <= MaxConcurrentPublishers

\* the bound binds: every slot is taken while another account waits for admission
C1_Witness ==
    /\ \E p \in Accounts : pc[p] = "pending"
    /\ Cardinality({p \in Accounts : pc[p] \in Running}) = MaxConcurrentPublishers
    /\ impl = "async"

\* C2: within one pipeline the number of requests inside the client's semaphore (the
\* lookup, list pages, body fetches, each with the pacing delay or retry backoff that
\* follows it) is at most max_concurrent_requests, and a waiting request of a pipeline
\* with a free slot can proceed whatever the other pipelines hold.
C2_RequestBound ==
    \A p \in Accounts :
        /\ Holders(p) <= max_concurrent_requests
        /\ \A i \in Pages :
              (impl = "async" /\ pc[p] = "fetching" /\ pg[p][i].st = "wait"
                  /\ Holders(p) < max_concurrent_requests)
              => ENABLED AsyncPageAcquire(p, i)

\* two pipelines hold all their slots at once, one of them in a retry of a body fetch
C2_Witness ==
    \E p, q \in Accounts :
        /\ p # q
        /\ Holders(p) = max_concurrent_requests
        /\ Holders(q) = max_concurrent_requests
        /\ \E j \in DOMAIN bd[p] : bd[p][j].st = "req" /\ bd[p][j].att > 0

\* C3: once the cancel flag is set, a pipeline that has not yet started emits no status
\* event and issues no request.
C3_NoStartAfterCancel ==
    [][\A p \in Accounts :
          (is_cancelled /\ pc[p] = "pending")
          => (pc'[p] \in {"pending", "skipped"} /\ status'[p] = status[p])]_vars

\* requests of pipeline p that have been sent
Sent(p) ==
    {<<"page", i>> : i \in {i \in Pages : pg[p][i].st \in {"req", "done"}}}
    \cup {<<"body", j>> : j \in {j \in DOMAIN bd[p] : bd[p][j].st \in {"req", "done"}}}

\* C4: once the cancel flag is set, a running pipeline issues no further list-page
\* request and no further body fetch.
C4_NoRequestAfterCancel ==
    [][is_cancelled => \A p \in Accounts : Sent(p)' \subseteq Sent(p)]_vars

\* identities of the records of a list
Ids(s) == {<<s[k].owner, s[k].page, s[k].idx>> : k \in 1..Len(s)}

FinalStatusOK ==
    (phase = "returned" /\ ~ConfigError /\ ~is_cancelled)
    => \A p \in Accounts :
          \/ pc[p] = "returned" /\ status[p] = "completed"
          \/ pc[p] = "raised" /\ status[p] = "error"

\* the scheduler has seen the end of pipeline p
Reported(p) == impl # "threaded" \/ p \in collected

\* C7: an exception inside one pipeline never leaves start_batch_scrape; it gives the
\* error status for that account only (never "completed"), and in a batch that is not
\* cancelled every pipeline still ends Completed or Failed and the results of the
\* others are returned; async, sequential and thread pool alike.
C7_ErrorIsolation ==
    /\ (\E p \in Accounts : pc[p] = "raised") => phase # "raised"
    /\ \A p \in Accounts :
          /\ pc[p] = "raised" => (status[p] # "completed" /\ articles[p] = <<>>)
          /\ (pc[p] = "raised" /\ Reported(p)) => status[p] = "error"
          /\ status[p] = "error" => pc[p] = "raised"
          /\ (pc[p] = "returned" /\ Reported(p))
             => (status[p] = "completed"
                    /\ (impl # "async" => Ids(articles[p]) \subseteq Ids(all_articles)))
    /\ FinalStatusOK
    /\ (phase = "returned" /\ impl = "async")
       => \A p \in Accounts :
             pc[p] = "returned" => Ids(articles[p]) \subseteq Ids(all_articles)

\* the message has `part` as a contiguous piece
MsgContains(msg, part) ==
    \E k \in 1..(Len(msg) - Len(part) + 1) : SubSeq(msg, k, k + Len(part) - 1) = part

\* "<account not found>: <display name>" of pipeline p
NotFoundPart(p) == <<"weizhaodao gongzhonghao: ", accounts[p]>>

\* records of pipeline p in a list
RecordsOf(p, s) == {k \in 1..Len(s) : s[k].owner = p}

\* C8: a lookup that gives an empty result ends the pipeline with an error status
\* whose message contains "<account not found>: <display name>"; the pipeline sends
\* no list-page request and no body request and contributes no record; the batch goes
\* on, and unless it is cancelled it ends every other pipeline Completed or Failed.
C8_NotFound ==
    /\ \A p \in Accounts :
          lookup[p] = "empty"
          => /\ pc[p] = "raised"
             /\ phase # "raised"
             /\ MsgContains(errmsg[p], NotFoundPart(p))
             /\ status[p] \in {"searching", "error"}
             /\ Reported(p) => status[p] = "error"
             /\ \A i \in Pages : pg[p][i].st = "none"
             /\ bd[p] = <<>>
             /\ articles[p] = <<>>
             /\ RecordsOf(p, collected_articles) = {}
             /\ RecordsOf(p, all_articles) = {}
    /\ FinalStatusOK

\* C9: a pipeline that has received a response with base_resp.ret in {-6, 200013}
\* (lookup or list page) never ends Completed.
C9_AuthExpiredFails ==
    \A p \in Accounts :
        "auth" \in seen[p] => (pc[p] # "returned" /\ status[p] # "completed")

\* C10: a pipeline one of whose requests (lookup, list page, body fetch) has failed
\* with a transport error on every attempt never ends Completed, and the batch goes on
\* (start_batch_scrape does not raise).
C10_TransportFails ==
    \A p \in Accounts :
        ("error" \in seen[p] \/ "bodyfail" \in seen[p])
        => (pc[p] # "returned" /\ status[p] # "completed" /\ phase # "raised")

\* C17: a batch whose dates fail validation aborts before starting: the error is
\* reported, start_batch_scrape returns an empty list and does not raise, no request is
\* sent, no status event and no batch_completed event is emitted.
C17_ValidationAborts ==
    (ConfigError /\ phase # "idle")
    => /\ phase = "returned"
       /\ all_articles = <<>>
       /\ lastEvent = "error"
       /\ batch_completed = -1
       /\ \A p \in Accounts :
             pc[p] = "pending" /\ status[p] = "none" /\ lookup[p] = "none"

\* the record has a timestamp and its date lies in the window, edges included
InWindow(a) ==
    a.ts > 0 /\ Window.start <= DateOf(a.ts) /\ DateOf(a.ts) <= Window.end

\* the records of each pipeline stand in the order of the list pages
Ordered(s) ==
    \A j, k \in 1..Len(s) :
        (j < k /\ s[j].owner = s[k].owner)
        => \/ s[j].page < s[k].page
           \/ s[j].page = s[k].page /\ s[j].idx < s[k].idx

\* C11: every record of the result of a batch (and of the aggregate, and of a
\* pipeline's list after its date filter) has a timestamp > 0 and a date inside the
\* window; a date filter returns records inside the window only, in the order of its
\* input, and it retains the records dated on the first and on the last day of the
\* window.
C11_DateWindow ==
    /\ \A k \in 1..Len(all_articles) : InWindow(all_articles[k])
    /\ \A k \in 1..Len(collected_articles) : InWindow(collected_articles[k])
    /\ Ordered(all_articles) /\ Ordered(collected_articles)
    /\ \A p \in Accounts :
          pc[p] \in {"content", "returned"}
          => (Ordered(articles[p]) /\ \A k \in 1..Len(articles[p]) : InWindow(articles[p][k]))
    /\ (op \in {"filter_date", "filter_date_sync"} /\ res.done)
       => /\ \A k \in 1..Len(res.val) : InWindow(res.val[k])
          /\ Ordered(res.val)
          /\ \A k \in 1..Len(arg) :
                (arg[k] > 0 /\ DateOf(arg[k]) \in {Window.start, Window.end})
                => \E j \in 1..Len(res.val) : res.val[j].idx = k

\* a date filter has kept a record of the last day followed by one of the first day and
\* dropped a record without timestamp
C11_Witness ==
    /\ op = "filter_date" /\ res.done
    /\ Len(arg) = 3 /\ Len(res.val) = 2
    /\ \E k \in 1..Len(arg) : arg[k] = 0
    /\ DateOf(res.val[1].ts) = Window.end /\ DateOf(res.val[2].ts) = Window.start

\* every record of the list has an empty body
NoBodies(s) == \A k \in 1..Len(s) : s[k].content = <<>>

\* C12: in a batch with include_content false no body request is ever sent, and every
\* record of the result, of the aggregate and of each pipeline's list has an empty body
\* at every point of the run.
C12_NoBodiesWithoutContent ==
    (op = "batch" /\ ~include_content)
    => /\ \A p \in Accounts : bd[p] = <<>> /\ pc[p] # "content" /\ NoBodies(articles[p])
       /\ NoBodies(all_articles)
       /\ NoBodies(collected_articles)
       /\ lastEvent # "content_progress"

\* a batch without bodies has returned records that are also in the aggregate
C12_Witness ==
    /\ ~include_content /\ phase = "returned"
    /\ Len(all_articles) > 1 /\ Len(collected_articles) > 1

\* the body loop of pipeline p ends in this step with the cancel flag set
CutInBodyPhase(p) == is_cancelled /\ pc[p] = "content" /\ pc'[p] = "returned"

\* C13: when the cancel flag ends the body phase of a pipeline, each record whose body
\* was not fetched is in the list the pipeline hands to the result, with an empty body,
\* whether or not a keyword filter is configured.
C13_UnfetchedKept ==
    [][\A p \in Accounts :
         CutInBodyPhase(p)
         => \A j \in DOMAIN bd[p] :
               bd[p][j].st # "done"
               => \E k \in 1..Len(articles'[p]) :
                     /\ SameDict(articles'[p][k], articles[p][j])
                     /\ articles'[p][k].content = <<>>]_vars

\* a record whose fetched body the keyword filter of its pipeline rejects
DroppedByCompletedRun(a) ==
    /\ content_keyword_filter # <<>> /\ a.content # <<>>
    /\ filter_articles_by_keyword(<<a>>, content_keyword_filter) = <<>>

\* C14: the list handed back once the batch is cancelled holds no record that the
\* completed pipeline drops, such as one whose body lacks the keyword.
C14_PartialIsSubset ==
    (impl = "async" /\ is_cancelled)
    => \A k \in 1..Len(get_articles) : ~DroppedByCompletedRun(get_articles[k])

\* records the keyword filter of pipeline p drops in this step
DroppedNow(p) == Len(articles[p]) - Len(articles'[p])

\* pipeline p runs its keyword filter in this step
KeywordFilterStep(p) ==
    /\ content_keyword_filter # <<>> /\ pc[p] = "content" /\ pc'[p] = "returned"
    /\ ~(impl # "async" /\ is_cancelled)

\* C15: the total of the article_progress event a pipeline emits after its keyword
\* filter is lower than the total of the event it emitted after its date filter by
\* exactly the number of records the keyword filter dropped.
C15_FilterDelta ==
    [][\A p \in Accounts :
         KeywordFilterStep(p) => article_count'[p] = article_count[p] - DroppedNow(p)]_vars

\* the two characters are the same letter, whatever their case
SameLetter(a, b) == a = b \/ {a, b} = {"k", "K"} \/ {a, b} = {"w", "W"}

\* the keyword occurs in the body as a substring, letter case ignored
Matches(body, kw) ==
    \E i \in 1..Len(body) :
        /\ i + Len(kw) - 1 <= Len(body)
        /\ \A j \in 1..Len(kw) : SameLetter(body[i + j - 1], kw[j])

\* what the keyword step of a pipeline makes of its list
KeywordStepOutput(arts, kw) ==
    IF kw = <<>> THEN arts ELSE SelectSeq(arts, LAMBDA a : Matches(a.content, kw))

\* C16: with a non-empty keyword the filter returns exactly the records whose body
\* contains the keyword as a substring, letter case ignored, in their order, and with an
\* empty keyword the list as it is; a pipeline applies it only after its body phase, so
\* that with an empty keyword or without bodies its output is the date-filtered list.
C16_KeywordFilter ==
    /\ []((op = "filter_keyword" /\ res.done)
           => res.val = KeywordStepOutput(ArticlesWith(arg.bodies), arg.keyword))
    /\ [][\A p \in Accounts :
            /\ (impl = "async" /\ pc[p] = "content" /\ pc'[p] = "returned")
               => articles'[p] = KeywordStepOutput(articles[p], content_keyword_filter)
            /\ (impl # "async" /\ pc[p] = "content" /\ pc'[p] = "returned")
               => IF content_keyword_filter = <<>>
                  THEN Ids(articles'[p]) = Ids(articles[p])
                  ELSE /\ \A k \in 1..Len(articles'[p]) :
                            Matches(articles'[p][k].content, content_keyword_filter)
                       /\ \A k \in 1..Len(articles[p]) :
                            Matches(articles[p][k].content, content_keyword_filter)
                            => InList(articles[p][k], articles'[p])
            /\ (impl = "async" /\ pc[p] = "fetching" /\ pc'[p] = "returned")
               => articles'[p] = filter_articles_by_date(MergePages(p, pg[p], 0))]_vars

\* the filter has kept the first and the third of three records, the first one for a
\* body that has the keyword in another letter case
C16_Witness ==
    /\ op = "filter_keyword" /\ res.done
    /\ arg.keyword = <<"K", "w">> /\ Len(arg.bodies) = 3
    /\ Len(res.val) = 2 /\ res.val[1].idx = 1 /\ res.val[2].idx = 3
    /\ res.val[1].content = <<"k", "W">>

\* number of records of the list that are equal to x
Count(s, x) == Cardinality({k \in 1..Len(s) : SameDict(s[k], x)})

\* the two lists hold the same records the same number of times
SameMultiset(s, t) ==
    /\ \A k \in 1..Len(s) : Count(s, s[k]) = Count(t, s[k])
    /\ \A k \in 1..Len(t) : Count(s, t[k]) = Count(t, t[k])

\* C18: run against the same responses with the same configuration and no cancel, the
\* async and the synchronous scraper end the publisher in the same state and return
\* the same multiset of records.
C18_SameResult ==
    (op = "scrapers" /\ res.done)
    => /\ res.val[1].state = res.val[2].state
       /\ SameMultiset(res.val[1].records, res.val[2].records)

\* the cache file holds a session that parses and is at most CACHE_EXPIRE_HOURS old
FreshSession(c) ==
    c.file \in {"empty_token", "session"} /\ c.age <= CACHE_EXPIRE_HOURS * 3600

RECURSIVE PyEquals(_, _)
PyEquals(a, b) ==
    /\ a.type = b.type
    /\ CASE a.type = "dict" ->
              /\ Len(a.v) = Len(b.v)
              /\ \A i \in 1..Len(a.v) : /\ PyEquals(a.v[i].key, b.v[i].key)
                                        /\ PyEquals(a.v[i].val, b.v[i].val)
         [] a.type = "float" -> a.v = b.v /\ a.v # "NaN"
         [] OTHER -> a.v = b.v

\* the decoded value of the round trip equals the session, and the encoded string
\* starts with the version prefix
RoundTrips ==
    /\ Len(res.val) = 2
    /\ startswith(res.val[1].val, <<"W", "C", "0", "1">>)
    /\ res.val[2].ok /\ PyEquals(res.val[2].val, arg)

\* a non-empty token string, a non-empty cookies mapping, a numeric timestamp
SessionInvariants(s) ==
    /\ Get(s, "token").type = "str" /\ Get(s, "token").v # ""
    /\ Get(s, "cookies").v # <<>>
    /\ Get(s, "timestamp").type \in {"int", "float"}

JsonSession(s) ==
    /\ SessionInvariants(s)
    /\ strip(Get(s, "token").v) # ""
    /\ \A i \in 1..Len(Get(s, "cookies").v) : Get(s, "cookies").v[i].key.type = "str"
    /\ Get(s, "timestamp").v # "NaN"

Lead(e, n) == SubSeq(e, 1, IF Len(e) < n THEN Len(e) ELSE n)

\* the base64 text of e after its four prefix characters, padded to whole groups
Padded(e) ==
    LET body == SubSeq(e, 5, Len(e)) IN
    body \o [i \in 1..((4 - (Len(body) % 4)) % 4) |-> "="]

\* the bytes of e before its last four, and its last four bytes
Deflated(e) ==
    LET bytes == urlsafe_b64decode(Padded(e)) IN SubSeq(bytes, 1, Len(bytes) - 4)
Trailer(e) ==
    LET bytes == urlsafe_b64decode(Padded(e)) IN SubSeq(bytes, Len(bytes) - 3, Len(bytes))

\* e has the prefix, base64 text of at least 5 bytes and a checksum that matches
ChecksumPasses(e) ==
    /\ Lead(e, 4) = <<"W", "C", "0", "1">>
    /\ B64Valid(Padded(e))
    /\ Len(urlsafe_b64decode(Padded(e))) >= 5
    /\ Trailer(e) = pack(crc32(Deflated(e)))

Raised(r, err) == ~r.ok /\ r.err = err

\* C21: decode_cache_data classifies its failures in a fixed order: an empty string
\* or one that does not start with WC gives DecodeError; one that starts with WC but
\* not with WC01 gives VersionError; fewer than 5 payload bytes give DecodeError; a
\* checksum that does not match gives ChecksumError, also when the bytes before it
\* are no zlib stream or no JSON; a session that is not well-formed gives
\* ValidationError; data is returned only when every step passes
C21_FailureOrder ==
    (op = "decode" /\ res.done) =>
        LET e == arg
            r == res.val IN
        /\ Lead(e, 2) # <<"W", "C">> => Raised(r, "DecodeError")
        /\ (Lead(e, 2) = <<"W", "C">> /\ Lead(e, 4) # <<"W", "C", "0", "1">>)
              => Raised(r, "VersionError")
        /\ (Lead(e, 4) = <<"W", "C", "0", "1">> /\ ~B64Valid(Padded(e)))
              => Raised(r, "DecodeError")
        /\ (Lead(e, 4) = <<"W", "C", "0", "1">> /\ B64Valid(Padded(e)))
              => IF Len(urlsafe_b64decode(Padded(e))) < 5
                 THEN Raised(r, "DecodeError")
                 ELSE IF ~ChecksumPasses(e)
                 THEN Raised(r, "ChecksumError")
                 ELSE LET inflated == decompress(Deflated(e)) IN
                      IF ~inflated.ok \/ ~json_loads(decode_utf8(inflated.val)).ok
                      THEN Raised(r, "DecodeError")
                      ELSE LET data == json_loads(decode_utf8(inflated.val)).val IN
                           IF validate_cache_data(data)
                           THEN r.ok /\ r.val = data
                           ELSE Raised(r, "ValidationError")

\* a checksum mismatch was reported for bytes that are no zlib stream
C21_Witness ==
    /\ op = "decode" /\ res.done
    /\ Raised(res.val, "ChecksumError")
    /\ ~decompress(Deflated(arg)).ok

\* arg is an encoded string with one character after the prefix replaced by the next
\* one of the alphabet
Tampered(e) ==
    \E x \in Encoded : \E i \in 5..Len(x) : e = NextChar(x, i)

\* C22: decode_cache_data of an encoded string with one character after the WC01
\* prefix replaced (the last one by the next of the alphabet included) raises
\* ChecksumError or DecodeError and never returns
C22_TamperDetected ==
    (op = "decode" /\ res.done /\ Tampered(arg)) =>
        (Raised(res.val, "ChecksumError") \/ Raised(res.val, "DecodeError"))

\* C23: `validate STR` exits 0 for an encoded string, and exits 0 only for a string
\* whose checksum passes
C23_ValidateExit ==
    (op = "validate" /\ res.done) =>
        /\ arg \in Encoded => res.val = 0
        /\ res.val = 0 => ChecksumPasses(arg)

\* ---- content search --------------------------------------------------------------
\* C24: the search output holds for each record its distinct matches (no match string
\* twice for one record, in URL mode and in generic mode), and no record without a
\* match
C24_DistinctMatches ==
    (op = "search" /\ res.done) =>
        \A n \in 1..Len(res.val) :
            LET matches == res.val[n].matches IN
            /\ matches # <<>>
            /\ \A i, j \in 1..Len(matches) : matches[i] = matches[j] => i = j

\* C25: for the body "see https://pan.example.cn/s/abc123, and
\* (https://pan.example.cn/s/xyz)." and the pattern "https://pan.example.cn/s/*" the
\* matches are the two links without the "," and the ")." that follow them
C25_TrailingTrimmed ==
    (op = "search" /\ res.done /\ arg.contents = <<ExampleBody>>
        /\ arg.pattern = Site \o <<"*">>) =>
        /\ Len(res.val) = 1
        /\ res.val[1].matches =
              <<Site \o <<"a", "b", "c", "1", "2", "3">>, Site \o <<"x", "y", "z">>>>

\* ---- gallery images --------------------------------------------------------------
\* the canonical form of an image address: entities unescaped, http rewritten to
\* https, query string stripped, trailing "/" stripped
Canonical(u) == [u EXCEPT !.scheme = "https", !.query = "", !.slash = FALSE]

\* C26: for a gallery post whose image addresses (those of the image host) have K
\* distinct canonical forms, the Markdown body holds exactly K images: no two
\* addresses with the same canonical form are both emitted
C26_ImageDedup ==
    (op = "images" /\ res.done) =>
        LET images == {arg[i] : i \in {j \in 1..Len(arg) : arg[j].host = "mmbiz.qpic.cn"}} IN
        /\ Len(res.val) = Cardinality({Canonical(u) : u \in images})
        /\ \A i, j \in 1..Len(res.val) :
              Canonical(res.val[i].src) = Canonical(res.val[j].src) => i = j

AllRetried(outcomes, n) ==
    \A i \in 1..(n - 1) : outcomes[i] \notin {"ok", "exception"}

\* C28: get_article_content makes at most 3 attempts and stops at the first one with a
\* valid body; it waits 2 s before the second and 3 s before the third attempt
\* whatever the kind of failure, never more than 10 s; it returns a string; for the
\* async client and for the function of utils.py
C28_RetryPolicy ==
    (op = "get_article_content" /\ res.done) =>
        LET r == res.val IN
        /\ r.attempt \in 1..3
        /\ AllRetried(arg.outcomes, r.attempt)
        /\ r.content = "content" <=> arg.outcomes[r.attempt] = "ok"
        /\ r.attempt < 3 => arg.outcomes[r.attempt] \in {"ok", "exception"}
        /\ r.slept = SubSeq(<<2000, 3000>>, 1, r.attempt - 1)
        /\ \A i \in 1..Len(r.slept) : r.slept[i] <= 10000
        /\ r.content # "none"

\* C29: when every attempt of a body fetch of the async client found a page whose
\* parsed body is empty or too short, the string returned for the record's body is ""
C29_EmptyBodyOnExhaustion ==
    (op = "get_article_content" /\ arg.client = "async" /\ res.done
        /\ \A i \in 1..max_retries : arg.outcomes[i] \in {"short", "empty", "title_only"})
    => res.val.content = ""

\* ---- list pages ------------------------------------------------------------------
\* the index of the first page without posts, MaxPages if every page has posts
FirstEmptyPage(outs) ==
    IF \E i \in Pages : PostsOf(outs[i]) = <<>>
    THEN CHOOSE i \in Pages : /\ PostsOf(outs[i]) = <<>>
                              /\ \A j \in 0..(i - 1) : PostsOf(outs[j]) # <<>>
    ELSE MaxPages

\* the records of the pages before the first empty one, by increasing offset
LeadingPages(p, outs) ==
    Concat([n \in 1..FirstEmptyPage(outs) |-> PageRecords(p, n - 1, outs[n - 1])],
           FirstEmptyPage(outs))

\* C30: the list enumerated for one publisher is the concatenation, by increasing
\* offset, of the pages before the first one that returned no posts (of all pages if
\* none did), in the order the page responses arrive in whatever that is: the
\* async pipeline hands exactly these records to the date filter when its page tasks
\* are done, and so do both scrapers run against given responses
C30_LeadingPages ==
    /\ [](( op = "scrapers" /\ res.done) =>
            \A n \in 1..2 :
                res.val[n].state = "completed" =>
                    res.val[n].records =
                        BodyPhase(filter_articles_by_date(LeadingPages(1, arg.pages)),
                                  arg.bodies))
    /\ [][\A p \in Accounts :
            (impl = "async" /\ pc[p] = "fetching" /\ pc'[p] \in {"content", "returned"})
            => articles'[p] =
                  filter_articles_by_date(
                      LeadingPages(p, [i \in Pages |-> pg[p][i].out]))]_vars

\* both scrapers have returned the records of two pages in page order
C30_Witness ==
    /\ op = "scrapers" /\ res.done /\ ~include_content
    /\ \A i \in Pages : arg.pages[i] = "in"
    /\ \A n \in 1..2 :
          /\ res.val[n].state = "completed"
          /\ Len(res.val[n].records) = MaxPages
          /\ \A k \in 1..MaxPages : res.val[n].records[k].page = k - 1

\* ---- account_status events ---------------------------------------------------------
\* position of a state in Searching, Fetching, Filtering, FetchingBodies, then
\* Completed or Failed ("processing" precedes them)
StateRank(s) ==
    CASE s = "processing" -> 0
      [] s = "searching" -> 1
      [] s = "fetching" -> 2
      [] s = "filtering" -> 3
      [] s = "content" -> 4
      [] s \in {"completed", "error"} -> 5

\* C31: the states of the account_status events of one publisher never go back to a
\* state that precedes one already entered (Filtering is not entered after
\* FetchingBodies), and the terminal state (Completed or Failed) is the last event
C31_StateOrder ==
    (op = "account_status" /\ res.done) =>
        \A n \in 1..2 :
            LET ev == res.val[n] IN
            /\ \A i \in 1..Len(ev), j \in 1..Len(ev) :
                  i < j => StateRank(ev[i]) <= StateRank(ev[j])
            /\ \A i \in 1..Len(ev) : StateRank(ev[i]) = 5 => i = Len(ev)

\* ---- the aggregate and its counter ---------------------------------------------------
\* C32: in the async scheduler, between the locked sections, total_articles_count is
\* the number of records in collected_articles and is never negative, whatever the
\* pipelines have committed and removed, pipelines for the same display name included
C32_CountMatchesAggregate ==
    /\ impl = "async" =>
          /\ total_articles_count = Len(collected_articles)
          /\ total_articles_count >= 0
    /\ op = "aggregate" =>
          /\ Aggregate.total_articles_count = Len(Aggregate.collected_articles)
          /\ Aggregate.total_articles_count >= 0

\* the counter alone: it never goes below zero
CountNeverNegative ==
    /\ impl = "async" => total_articles_count >= 0
    /\ op = "aggregate" => Aggregate.total_articles_count >= 0

\* the counter and the aggregate of the batches with distinct display names
CountMatchesDistinctNames ==
    /\ impl = "async" => total_articles_count = Len(collected_articles)
    /\ (op = "aggregate" /\ arg.names[1] # arg.names[2]) =>
          Aggregate.total_articles_count = Len(Aggregate.collected_articles)

\* ---- content_progress ----------------------------------------------------------------
\* C33: the body phase of a pipeline with `total` records emits exactly `total`
\* content_progress events, each after a body fetch has completed, and the k-th event
\* has current = k, the number of bodies fetched so far, whatever the order in which
\* the fetches complete
C33_ProgressCounts ==
    op = "content_progress" =>
        LET ev == Progress.events IN
        /\ res.done => Len(ev) = arg.total
        /\ \A k \in 1..Len(ev) : ev[k].current = k /\ ev[k].fetched = k

\* ---- decode_to_cache_file --------------------------------------------------------------
\* the session file holds the session decoded from the string of the call
HoldsDecoded(file, call) ==
    file = File(json_dumps(decode_cache_data(call.encoded_str).val))

\* decoding fails: the session file and the .backup file are as they were
FailedImportTouchesNothing ==
    (op = "import" /\ res.done /\ ~decode_cache_data(arg.encoded_str).ok)
    => /\ res.val.raised
       /\ res.val.cache_file = arg.cache_file
       /\ res.val.backup_file = arg.backup_file

\* the call decodes, backup is on and a session file exists
ImportOverExisting ==
    /\ op = "import" /\ res.done /\ decode_cache_data(arg.encoded_str).ok
    /\ arg.backup /\ arg.cache_file.exists

\* C34 as stated: a failed decoding leaves both files unchanged; a successful one with
\* backup on and a session file present leaves the previous content in .backup and the
\* decoded session in the session file
C34_ImportAsStated ==
    /\ FailedImportTouchesNothing
    /\ ImportOverExisting =>
          /\ res.val.backup_file = arg.cache_file
          /\ HoldsDecoded(res.val.cache_file, arg)

\* C34: a failed decoding leaves both files unchanged; a successful one with backup on
\* and a session file present leaves the previous content in .backup if the copy did
\* not fail (its failure is logged and the import goes on), and the decoded session in
\* the session file if the write did not fail (else IOError is raised)
C34_ImportFrame ==
    /\ FailedImportTouchesNothing
    /\ ImportOverExisting =>
          /\ arg.copy2 = "ok" => res.val.backup_file = arg.cache_file
          /\ arg.write = "ok" => HoldsDecoded(res.val.cache_file, arg)
          /\ arg.write # "ok" => res.val.raised

\* an import over an existing session file has made the backup and written the session
C34_Witness ==
    /\ ImportOverExisting
    /\ arg.copy2 = "ok" /\ arg.write = "ok" /\ arg.backup_file.exists
    /\ ~res.val.raised
    /\ res.val.backup_file = File(<<"old">>)
    /\ HoldsDecoded(res.val.cache_file, arg)

\* ---- cancel() against run() -------------------------------------------------------------
\* C35: a cancel request is never lost, wherever cancel() falls in run(): the scraper's
\* flag is set when the pipelines are admitted after a request, so none is started,
\* and a batch that ends after a request has not written the output file
C35_CancelNotLost ==
    op = "worker" =>
        /\ Worker.worker_is_cancelled /\ Worker.at \in {"admit", "end"}
              => Worker.is_cancelled
        /\ Worker.worker_is_cancelled /\ Worker.at = "returned" => Worker.csv = arg.csv

\* C38: the output CSV is written only by a batch that was not cancelled, before
\* batch_completed is emitted, with exactly the records start_batch_scrape returns, in
\* their order; a batch that was cancelled leaves the output path as it was
C38_CsvWritten ==
    (op = "worker" /\ res.done) =>
        /\ Worker.csv # arg.csv =>
              /\ ~Worker.worker_is_cancelled
              /\ Worker.csv = save_articles_to_csv(Worker.all_articles)
              /\ Worker.events = <<"csv", "batch_completed">>
        /\ Worker.worker_is_cancelled =>
              /\ Worker.csv = arg.csv
              /\ "csv" \notin {Worker.events[k] : k \in 1..Len(Worker.events)}

\* the same for the batches whose cancel request, if any, came after the state reset
CsvWrittenUnlessLost ==
    (op = "worker" /\ (Worker.worker_is_cancelled => Worker.is_cancelled))
    => C38_CsvWritten

\* ---- the session in memory ---------------------------------------------------------------
\* C36: whatever login(), logout() and clear_cache() calls came before, get_token() and
\* get_cookies() (and get_headers(), built from the cookies) return None or a value
\* that was captured by the browser login or has passed the probe
C36_GettersReturnLiveSession ==
    (op = "session" /\ Len(res.val) = 1)
    => res.val[1].got \in {"-", "None", "probed", "fresh"}

\* ---- the keyword filter and the records of other pipelines ----------------------------
\* every record of list s that pipeline p did not append is in list t
OthersKept(p, s, t) ==
    \A k \in 1..Len(s) : s[k].owner # p => \E j \in 1..Len(t) : t[j] = s[k]

\* the keyword-filter step of the batches with distinct display names
FilterKeepsOtherAccounts ==
    [][\A p \in Accounts :
        (impl = "async" /\ pc[p] = "content" /\ pc'[p] = "returned")
        => OthersKept(p, collected_articles, collected_articles')]_vars

\* C37: the keyword-filter step of a pipeline leaves in the aggregate every record that
\* another pipeline appended, also when the other pipeline runs for the same display
\* name
C37_FilterKeepsOthers ==
    /\ FilterKeepsOtherAccounts
    /\ [][\A p \in Accounts :
            (op = "aggregate" /\ Aggregate.at[p] = "filter" /\ Aggregate'.at[p] = "done")
            => OthersKept(p, Aggregate.collected_articles,
                          Aggregate'.collected_articles)]_vars

\* ---- termination ---------------------------------------------------------------------
\* C39: with every request answered, each admitted pipeline reaches Completed or Failed,
\* no pipeline waits for admission forever, start_batch_scrape returns, and by then
\* every slot of the account semaphore and of the request semaphores is free
C39_BatchTerminates ==
    /\ (phase = "running") ~> (phase = "returned")
    /\ \A p \in Accounts :
          (phase = "running" /\ pc[p] \in Running \cup {"pending"}) ~> (pc[p] \in Terminal)
    /\ [](phase = "returned" =>
            \A p \in Accounts : pc[p] \notin Running /\ Holders(p) = 0)

\* a batch has returned after a pipeline failed, another went through its body phase
\* with a retried request, and the request slot was contended
C39_Witness ==
    /\ impl = "async" /\ phase = "returned" /\ max_concurrent_requests = 1
    /\ pc[1] = "raised" /\ pc[2] = "returned"
    /\ "bodyfail" \in seen[2]
    /\ Len(articles[2]) = MaxPages

\* ---- after start_batch_scrape ------------------------------------------------------------
\* start_batch_scrape has returned or has been left by an exception
Left == phase \in {"returned", "raised"}

\* C40: when start_batch_scrape is left, no pipeline it started is still running, and
\* from then on no pipeline of the batch sends a request, emits an event, or changes
\* the aggregate, its own list or the returned list, with or without cancel
C40_NothingAfterReturn ==
    /\ [](Left => \A p \in Accounts : pc[p] \notin Running)
    /\ [][Left => UNCHANGED <<pc, status, errmsg, lookup, seen, pg, bd, articles,
                              collected_articles, total_articles_count, all_articles,
                              lastEvent, article_count, batch_completed, collected>>]_vars

\* a cancelled thread-pool batch has returned after its as_completed loop was left with
\* a future not yet handled: both pipelines have run to their end all the same
C40_Witness ==
    /\ impl = "threaded" /\ phase = "returned" /\ is_cancelled
    /\ collected # Accounts
    /\ \A p \in Accounts : pc[p] = "returned" /\ articles[p] # <<>>

====
